---- MODULE Spec2Model ----
(***************************************************************************)
(* Air-quality API (ProjectAPI/api): the token and owner guards, the       *)
(* ingestion handler and the read handlers of aqi_routes.py, over a model  *)
(* of the relational Nodes table and of the time-series store.             *)
(*                                                                         *)
(* Numbers.  A stored value is a record [k, n, d]: k is its kind ("num",   *)
(* "nan", "inf", "ninf" for floats, "none" for an absent cell, "str" for a *)
(* non-numeric cell) and, for k = "num", the value is n/d eighths (n/(8d)),*)
(* so that every modelled number is an exact binary fraction and Python's  *)
(* round(x, 2), which rounds the exact value half-to-even, is computed     *)
(* exactly.  A rounded value is an integer count of hundredths.            *)
(*                                                                         *)
(* Time.  An instant is a number of seconds since 2023-01-01T00:00:00Z.    *)
(***************************************************************************)
EXTENDS Integers, Sequences, FiniteSets, TLC

VARIABLES nodes, store, now, pc, req, calls, result, resp, users, subs, fan,
          tasks, inflight, credentials, tokens, issued, accepted

\* The users table; the notification table, the daily run over it, the
\* background tasks of the subscribe requests and the subscribe requests that
\* are between their lookup and their commit.
\* The sign-in columns of the users table, the token table, the number of
\* tokens generated so far and the tokens the token endpoints have accepted.
verification == <<credentials, tokens, issued, accepted>>
account == <<users, verification>>
notify == <<subs, fan, tasks, inflight>>

vars == <<nodes, store, now, pc, req, calls, result, resp, account, notify>>

(***************************************************************************)
(* Bounds of the model.                                                    *)
(***************************************************************************)
MaxRecs == 3
MaxReadings == 2
MaxTicks == 2

(***************************************************************************)
(* Values.                                                                 *)
(***************************************************************************)
Num(n) == [k |-> "num", n |-> n, d |-> 1]
Rat(n, d) == [k |-> "num", n |-> n, d |-> d]
None == [k |-> "none", n |-> 0, d |-> 1]
Str == [k |-> "str", n |-> 0, d |-> 1]
NaN == [k |-> "nan", n |-> 0, d |-> 1]
PInf == [k |-> "inf", n |-> 0, d |-> 1]
NInf == [k |-> "ninf", n |-> 0, d |-> 1]

\* Python: value is not None and isinstance(value, (int, float))
IsNumber(v) == v.k \in {"num", "nan", "inf", "ninf"}

\* Python: str(value).lower() in ['nan', 'inf', '-inf']
IsNanInfText(v) == v.k \in {"nan", "inf", "ninf"}

\* Python: value < 0 (False for nan, True for -inf)
IsNegative(v) == \/ v.k = "ninf"
                 \/ v.k = "num" /\ v.n < 0

\* The integer nearest to n/d (d > 0), ties to the even one.
RoundHalfEven(n, d) ==
    LET q == n \div d
        r == n % d
    IN  IF 2 * r < d THEN q
        ELSE IF 2 * r > d THEN q + 1
        ELSE IF q % 2 = 0 THEN q ELSE q + 1

\* Python: round(float(value), 2) of a finite value, in hundredths.
Round2(v) == RoundHalfEven(100 * v.n, 8 * v.d)

(***************************************************************************)
(* Calendar of the instants (UTC).                                         *)
(***************************************************************************)
\* The first day of the model's time line.
Epoch == <<2023, 1, 1>>
EpochYear == Epoch[1]
Hour == 60 * 60
Day == 24 * Hour
BangkokOffset == 7 * Hour

IsLeap(y) == (y % 4 = 0 /\ y % 100 # 0) \/ y % 400 = 0

DaysInMonth(y, m) ==
    IF m = 2 THEN (IF IsLeap(y) THEN 29 ELSE 28)
    ELSE IF m \in {4, 6, 9, 11} THEN 30 ELSE 31

RECURSIVE DateOfDay(_, _, _)
DateOfDay(n, y, m) ==
    IF n < DaysInMonth(y, m) THEN <<y, m, n + 1>>
    ELSE DateOfDay(n - DaysInMonth(y, m),
                   IF m = 12 THEN y + 1 ELSE y,
                   IF m = 12 THEN 1 ELSE m + 1)

RECURSIVE DaysBefore(_, _)
\* Days from the epoch to the first day of month m of year y.
DaysBefore(y, m) ==
    IF y = EpochYear /\ m = 1 THEN 0
    ELSE IF m = 1 THEN DaysBefore(y - 1, 12) + DaysInMonth(y - 1, 12)
    ELSE DaysBefore(y, m - 1) + DaysInMonth(y, m - 1)

\* datetime(y, m, d, hh, mm, ss) as an instant.
At(y, m, d, hh, mm, ss) ==
    (DaysBefore(y, m) + d - 1) * Day + hh * Hour + mm * 60 + ss

\* strftime("%Y-%m-%d"): zero-padded, so texts compare as these tuples do.
StrfDate(t) == DateOfDay(t \div Day, EpochYear, 1)

\* strftime("%Y-%m")
StrfMonth(t) == <<StrfDate(t)[1], StrfDate(t)[2]>>

\* strftime("%H:%M")
StrfHourMinute(t) == <<(t % Day) \div Hour, ((t % Day) % Hour) \div 60>>

\* strftime("%m-%d")
StrfMonthDay(t) == <<StrfDate(t)[2], StrfDate(t)[3]>>

\* strftime("%Y-%m-%d %H:%M:%S")
StrfDateTime(t) == StrfDate(t) \o StrfHourMinute(t) \o <<t % 60>>

\* Python's < on two texts of one zero-padded format (tuples of one length).
RECURSIVE TextLess(_, _)
TextLess(a, b) ==
    IF a = <<>> \/ b = <<>> THEN a = <<>> /\ b # <<>>
    ELSE IF Head(a) # Head(b) THEN Head(a) < Head(b)
    ELSE TextLess(Tail(a), Tail(b))

(***************************************************************************)
(* The relational Nodes table (models.py) and the request inputs.          *)
(***************************************************************************)
\* The two statuses, with the values the node routes write as literals.
STATUS_OFFLINE == 0
STATUS_ONLINE == 1

\* Locations, as texts (tuples of characters).
L1 == <<"L", "1">>
L2 == <<"L", "2">>
L3 == <<"L", "3">>

NodesAt(id, name, token, uid, location, status) ==
    [node_id |-> id, node_name |-> name, node_token |-> token, user_id |-> uid,
     location |-> location, status |-> status]

\* A node as add_node leaves it, at location L1.
Nodes(id, name, token, uid) == NodesAt(id, name, token, uid, L1, STATUS_OFFLINE)

\* The value of a query's .first() that matches no row.
NoNode == Nodes("", "", "", -1)

\* Tables the node routes can produce: add_node keeps node_id = node_name
\* unique, update_node lets a second user rename a node to a taken name.
NodeTables ==
    { {Nodes("N1", "N1", "T1", 1), Nodes("N2", "N2", "T2", 2)},
      {Nodes("N1", "N1", "T1", 1), Nodes("N2", "N1", "T2", 2)} }

\* A node_name parameter that closes the string literal it is embedded in and
\* adds a second comparison.  Texts are atoms here; of the names a request
\* draws from, this is the one that holds a double quote.
Injected == "N3\" or r[\"node_name\"] == \"N1"
HasDoubleQuote(text) == text = Injected

NodeNames == {"N1", "N2", "N3", Injected}
NoName == ""
NoToken == ""
Tokens == {NoToken, "T1", "T2", "T3"}
UserIds == {0, 1, 2}
\* An Optional[int] argument: <<>> when absent, <<i>> when given.
NoUser == <<>>
OptionalUserIds == {NoUser} \cup {<<u>> : u \in UserIds}

\* Python truthiness of an Optional[str] / Optional[int] argument.
TruthyText(s) == s # ""
TruthyInt(i) == i # NoUser /\ i[1] # 0

\* Query(...).first(): any matching row, or no row.
First(rows) == IF rows = {} THEN {NoNode} ELSE rows

(***************************************************************************)
(* The response envelope and HTTPException.                                *)
(***************************************************************************)
NoData == <<>>
NoMeta == [kind |-> "none"]
HTTPException(code, message) ==
    [code |-> code, status |-> 0, message |-> message,
     data |-> NoData, metadata |-> NoMeta]
Success(message, data, metadata) ==
    [code |-> 200, status |-> 1, message |-> message,
     data |-> data, metadata |-> metadata]

\* A handler returning a dict: FastAPI sends it with HTTP 200, whatever its
\* "status" key holds.
ReturnDict(status, message, data) ==
    [code |-> 200, status |-> status, message |-> message,
     data |-> data, metadata |-> NoMeta]

\* The message f"{param} ต้องเป็น {allowed}": the parameter and the list it prints.
MustBeOneOf(param, allowed) == [param |-> param, allowed |-> allowed]

\* What a helper hands back: a raised HTTPException or a returned value.
Raise(code, message) == [raised |-> TRUE, exc |-> HTTPException(code, message),
                         node |-> NoNode]
Return(node) == [raised |-> FALSE, exc |-> HTTPException(0, ""), node |-> node]

(***************************************************************************)
(* Access guard.                                                           *)
(***************************************************************************)
\* A lookup that forgets both filters.
TokenLookupAnyNode(db, node_name, node_token) == db

\* The rows verify_node_token's lookup can match.
TokenLookup(db, node_name, node_token) ==
    IF TruthyText(node_name)
    THEN {n \in db : n.node_name = node_name}
    ELSE {n \in db : n.node_token = node_token}

\* The body of verify_node_token's try block, node being the .first() row.
VerifyNodeTokenBody(node_name, node_token, node) ==
    IF node = NoNode THEN Raise(404, "Node not found or invalid token")
    ELSE IF TruthyText(node_name) /\ node.node_token # node_token
    THEN Raise(403, "Invalid node token")
    ELSE Return(node)

\* verify_node_token: `except Exception` also catches the HTTPExceptions the
\* try block raises (HTTPException is an Exception) and re-raises them as 500.
verify_node_token(node_name, node_token, node) ==
    IF ~TruthyText(node_token) THEN Raise(401, "Node token is required")
    ELSE LET body == VerifyNodeTokenBody(node_name, node_token, node)
         IN  IF body.raised THEN Raise(500, "Token verification error")
             ELSE body

\* A lookup that forgets the owner filter.
AccessLookupByNameOnly(db, node_name, user_id) ==
    {n \in db : n.node_name = node_name}

\* The rows verify_node_access's lookup can match.
AccessLookup(db, node_name, user_id) ==
    {n \in db : n.node_name = node_name /\ n.user_id = user_id}

verify_node_access(node_name, user_id, node) ==
    IF node = NoNode THEN Raise(403, "Access denied to this node")
    ELSE Return(node)

\* handle_query_error: an HTTPException passes, anything else becomes 500.
InternalError == HTTPException(500, "query error")

(***************************************************************************)
(* The time-series store: a set of records, one per (measurement, node,    *)
(* instant, field), and the Flux pipelines the handlers send to it.        *)
(***************************************************************************)
Rec(m, node, t, field, v) ==
    [m |-> m, node |-> node, t |-> t, field |-> field, v |-> v]

\* AirQualityData, in declaration order.
ReadingFields == <<"PM1", "PM2_5", "PM4", "PM10", "CO2", "temperature", "humidity">>

\* The keys every summary row is built with, in order.
CanonFields ==
    <<"AQI", "PM1", "PM2_5", "PM4", "PM10", "CO2", "temperature", "humidity">>

\* A list of ranges that lets "12h" through.
valid_time_ranges_with_12h == {"24h", "7d", "30d", "12h"}

\* get_graph_data: valid_time_ranges, valid_data_types.
valid_time_ranges == {"24h", "7d", "30d"}
valid_data_types == {CanonFields[i] : i \in DOMAIN CanonFields}

Range(s) == {s[i] : i \in DOMAIN s}

\* A pipeline: from |> range |> filter(_measurement) |> filter(node_name)
\* |> filter(_field) |> aggregateWindow(every, fn: mean, createEmpty: false).
\* fields = {} stands for "no _field filter".
Query(m, node, fields, start, stop, every) ==
    [op |-> "query", m |-> m, node |-> node, fields |-> fields,
     start |-> start, stop |-> stop, agg |-> TRUE, every |-> every]

\* The same pipeline without the aggregateWindow stage.
RangeQuery(m, node, fields, start, stop) ==
    [op |-> "query", m |-> m, node |-> node, fields |-> fields,
     start |-> start, stop |-> stop, agg |-> FALSE, every |-> 0]

Write(m, node, t, fields) ==
    [op |-> "write", m |-> m, node |-> node, fields |-> fields,
     start |-> t, stop |-> t, agg |-> FALSE, every |-> 0]

\* The node_name tags that filter(fn: (r) => r["node_name"] == "{text}")
\* accepts once the store has parsed it.
FluxNodeFilter(text) == IF HasDoubleQuote(text) THEN {"N3", "N1"} ELSE {text}

\* range and the filters: start <= _time < stop.
Selected(db, q) ==
    {r \in db : /\ r.m = q.m
                /\ r.node \in FluxNodeFilter(q.node)
                /\ q.fields = {} \/ r.field \in q.fields
                /\ q.start <= r.t
                /\ r.t < q.stop}

RECURSIVE SumOf(_)
\* Sum of the finite values (in eighths) of a set of records.
SumOf(rs) ==
    IF rs = {} THEN 0
    ELSE LET r == CHOOSE x \in rs : TRUE
         IN  (IF r.v.k = "num" THEN r.v.n ELSE 0) + SumOf(rs \ {r})

\* fn: mean over one window of one series: the float mean of its non-null
\* values (nan if any is nan or both infinities occur), null if all are null.
FluxMean(rs) ==
    LET vals == {r \in rs : r.v.k # "none"}
        kinds == {r.v.k : r \in vals}
    IN  IF vals = {} THEN None
        ELSE IF "nan" \in kinds \/ {"inf", "ninf"} \subseteq kinds THEN NaN
        ELSE IF "inf" \in kinds THEN PInf
        ELSE IF "ninf" \in kinds THEN NInf
        ELSE Rat(SumOf(vals), Cardinality(vals))

\* The store rejects a range that is empty or reversed and a window that is
\* not positive; mean is defined on numeric columns only, so a text column
\* fails the query too.
FluxFails(db, q) ==
    \/ q.start >= q.stop
    \/ q.agg /\ q.every <= 0
    \/ q.agg /\ \E r \in Selected(db, q) : r.v.k = "str"

Min(a, b) == IF a < b THEN a ELSE b

\* aggregateWindow: windows [k*every, (k+1)*every) cut to the range; one
\* record per series and non-empty window, stamped with the window's stop.
AggregateWindow(rs, q) ==
    { Rec(q.m, q.node, Min((w + 1) * q.every, q.stop), f,
          FluxMean({r \in rs : r.field = f /\ r.t \div q.every = w}))
      : <<f, w>> \in {<<r.field, r.t \div q.every>> : r \in rs} }

\* The records a pipeline yields.
QueryResult(db, q) ==
    IF FluxFails(db, q) THEN {}
    ELSE IF q.agg THEN AggregateWindow(Selected(db, q), q) ELSE Selected(db, q)

\* Position of a field in the store's table order (tables come per series).
FieldRank(f) ==
    IF f \in Range(CanonFields)
    THEN CHOOSE i \in DOMAIN CanonFields : CanonFields[i] = f
    ELSE Len(CanonFields) + 1

RECURSIVE InSeriesOrder(_)
\* Tables in group-key order, each table by _time.
InSeriesOrder(rs) ==
    IF rs = {} THEN <<>>
    ELSE LET r == CHOOSE x \in rs : \A y \in rs :
                      \/ FieldRank(x.field) < FieldRank(y.field)
                      \/ FieldRank(x.field) = FieldRank(y.field) /\ x.t <= y.t
         IN  <<r>> \o InSeriesOrder(rs \ {r})

\* Every order in which the store may deliver a set of records.
ArrivalOrders(rs) ==
    {s \in [1..Cardinality(rs) -> rs] : \A i, j \in DOMAIN s : i # j => s[i] # s[j]}

(***************************************************************************)
(* Result normalizers.                                                     *)
(***************************************************************************)
Get(dict, key, default) == IF key \in DOMAIN dict THEN dict[key] ELSE default

RECURSIVE SortedTextsDescending(_)
\* sorted(keys, reverse=True).
SortedTextsDescending(S) ==
    IF S = {} THEN <<>>
    ELSE LET a == CHOOSE x \in S : \A y \in S : x = y \/ TextLess(y, x)
         IN  <<a>> \o SortedTextsDescending(S \ {a})

RECURSIVE SortedTexts(_)
\* sorted(keys) of texts of one format.
SortedTexts(S) ==
    IF S = {} THEN <<>>
    ELSE LET a == CHOOSE x \in S : \A y \in S : x = y \/ TextLess(x, y)
         IN  <<a>> \o SortedTexts(S \ {a})

\* process_aggregated_query: round(float(record.values.get("_value", 0)), 2).
\* No clamping: a negative, nan or infinite value is kept as it is.
FlatValue(v) ==
    IF v.k = "num" THEN [k |-> "num", c |-> Round2(v)] ELSE [k |-> v.k, c |-> 0]

\* float(None) and float("text") raise.
FloatRaises(v) == v.k \in {"none", "str"}

FlatPoint(r) ==
    [field |-> r.field, value |-> FlatValue(r.v),
     timestamp |-> [local |-> r.t + BangkokOffset, offset |-> BangkokOffset]]

\* process_aggregated_query without its `if not data` branch.
process_aggregated_query_no_empty_check(records, failed, period, node_name) ==
    IF failed \/ \E i \in DOMAIN records : FloatRaises(records[i].v)
    THEN HTTPException(500, "error fetching data")
    ELSE LET data == [i \in DOMAIN records |-> FlatPoint(records[i])]
         IN  Success("fetched", data,
                     [node_name |-> node_name, period |-> period,
                      count |-> Len(data), timezone |-> "Asia/Bangkok"])

\* process_aggregated_query, on the records the store delivered (or its failure).
process_aggregated_query(records, failed, period, node_name) ==
    IF failed \/ \E i \in DOMAIN records : FloatRaises(records[i].v)
    THEN HTTPException(500, "error fetching data")
    ELSE LET data == [i \in DOMAIN records |-> FlatPoint(records[i])]
         IN  IF data = <<>>
             THEN HTTPException(404, "no data for period")
             ELSE Success("fetched", data,
                          [node_name |-> node_name, period |-> period,
                           count |-> Len(data), timezone |-> "Asia/Bangkok"])

\* get_daily_summary_24h, lines 323-329.
daily_clean(value) ==
    IF IsNumber(value)
    THEN IF IsNanInfText(value) \/ IsNegative(value) THEN 0 ELSE Round2(value)
    ELSE 0

RECURSIVE DailyAccumulate(_, _)
\* get_daily_summary_24h, the loop over the records: daily_data.
DailyAccumulate(records, daily_data) ==
    IF records = <<>> THEN daily_data
    ELSE LET r == Head(records)
             date_str == StrfDate(r.t)
             entry == IF date_str \in DOMAIN daily_data
                      THEN daily_data[date_str]
                      ELSE ("date" :> date_str)
         IN  DailyAccumulate(Tail(records),
                 (date_str :> ((r.field :> daily_clean(r.v)) @@ entry))
                     @@ daily_data)

\* A row built with CO2 before PM10.
DailyRowSwapped(day_record) ==
    LET order == <<"AQI", "PM1", "PM2_5", "PM4", "CO2", "PM10",
                   "temperature", "humidity">>
    IN  <<<<"date", Get(day_record, "date", None)>>>>
        \o [i \in DOMAIN order |-> <<order[i], Get(day_record, order[i], 0)>>]

DailyRow(day_record) ==
    <<<<"date", Get(day_record, "date", None)>>>>
    \o [i \in DOMAIN CanonFields |->
            <<CanonFields[i], Get(day_record, CanonFields[i], 0)>>]

\* get_daily_summary_24h, from the delivered records to the data list.
DailyRows(records) ==
    LET daily_data == DailyAccumulate(records, <<>>)
        keys == SortedTexts(DOMAIN daily_data)
    IN  [i \in DOMAIN keys |-> DailyRow(daily_data[keys[i]])]

\* get_hourly_summary, lines 397-403.
hourly_clean(value) ==
    IF IsNumber(value)
    THEN IF IsNanInfText(value) \/ IsNegative(value) THEN 0 ELSE Round2(value)
    ELSE 0

RECURSIVE HourlyAccumulate(_, _)
\* get_hourly_summary, the loop over the records: hourly_data.
HourlyAccumulate(records, hourly_data) ==
    IF records = <<>> THEN hourly_data
    ELSE LET r == Head(records)
             hour_str == StrfHourMinute(r.t)
             entry == IF hour_str \in DOMAIN hourly_data
                      THEN hourly_data[hour_str]
                      ELSE ("time" :> hour_str) @@ ("datetime" :> StrfDateTime(r.t))
         IN  HourlyAccumulate(Tail(records),
                 (hour_str :> ((r.field :> hourly_clean(r.v)) @@ entry))
                     @@ hourly_data)

HourlyRow(hour_record) ==
    <<<<"time", Get(hour_record, "time", None)>>,
      <<"datetime", Get(hour_record, "datetime", None)>>>>
    \o [i \in DOMAIN CanonFields |->
            <<CanonFields[i], Get(hour_record, CanonFields[i], 0)>>]

\* get_hourly_summary, from the delivered records to the data list.
HourlyRows(records) ==
    LET hourly_data == HourlyAccumulate(records, <<>>)
        keys == SortedTexts(DOMAIN hourly_data)
    IN  [i \in DOMAIN keys |-> HourlyRow(hourly_data[keys[i]])]

\* A sanitizer that rounds without the `value < 0` test.
graph_clean_keeps_negative(value) ==
    IF IsNumber(value)
    THEN IF IsNanInfText(value) THEN 0 ELSE Round2(value)
    ELSE 0

\* get_graph_data, lines 494-500.
graph_clean(value) ==
    IF IsNumber(value)
    THEN IF IsNanInfText(value) \/ IsNegative(value) THEN 0 ELSE Round2(value)
    ELSE 0

\* get_graph_data, lines 502-514.
GraphPoint(r, time_range) ==
    [time |-> IF time_range = "24h" THEN StrfHourMinute(r.t) ELSE StrfMonthDay(r.t),
     datetime |-> IF time_range = "24h" THEN StrfDateTime(r.t) ELSE StrfDate(r.t),
     value |-> graph_clean(r.v),
     timestamp |-> r.t]

GraphData(records, time_range) ==
    [i \in DOMAIN records |-> GraphPoint(records[i], time_range)]

\* values filtered with >= 0 instead of > 0.
NonNegativeValues(graph_data) ==
    SelectSeq([i \in DOMAIN graph_data |-> graph_data[i].value], LAMBDA x : x >= 0)

\* values = [point["value"] for point in graph_data if point["value"] > 0]
PositiveValues(graph_data) ==
    SelectSeq([i \in DOMAIN graph_data |-> graph_data[i].value], LAMBDA x : x > 0)

RECURSIVE SumSeq(_)
SumSeq(s) == IF s = <<>> THEN 0 ELSE Head(s) + SumSeq(Tail(s))

RECURSIVE MinSeq(_)
MinSeq(s) == IF Len(s) = 1 THEN Head(s) ELSE Min(Head(s), MinSeq(Tail(s)))

RECURSIVE MaxSeq(_)
MaxSeq(s) ==
    IF Len(s) = 1 THEN Head(s)
    ELSE IF Head(s) > MaxSeq(Tail(s)) THEN Head(s) ELSE MaxSeq(Tail(s))

\* round(sum(values) / len(values), 2).  The values are the floats nearest to
\* hundredths, so when the exact mean lies midway between two hundredths the
\* float quotient may fall on either side: both neighbours are possible.
AvgOutcomes(values) ==
    LET q == SumSeq(values) \div Len(values)
        r == SumSeq(values) % Len(values)
    IN  IF 2 * r < Len(values) THEN {q}
        ELSE IF 2 * r > Len(values) THEN {q + 1}
        ELSE {q, q + 1}

\* get_graph_data, lines 516-526, avg being the rounded quotient.
Statistics(values, avg) ==
    IF values # <<>>
    THEN [min |-> MinSeq(values), max |-> MaxSeq(values),
          avg |-> avg, count |-> Len(values)]
    ELSE [min |-> 0, max |-> 0, avg |-> 0, count |-> 0]

(***************************************************************************)
(* Inputs of the model.                                                    *)
(***************************************************************************)
\* The clock starts at 2024-01-01T00:00:00Z and advances by half hours.
StartOfClock == At(2024, 1, 1, 0, 0, 0)
TickStep == 30 * 60

\* Bodies a node posts (values in eighths): the seven fields 1.0 .. 7.0, and
\* one with a negative, a nan and an infinite field (the JSON parser and float
\* accept them).
PayloadPlain == [i \in DOMAIN ReadingFields |-> Num(8 * i)]
PayloadOdd ==
    [i \in DOMAIN ReadingFields |->
        IF i = 1 THEN Num(-12) ELSE IF i = 5 THEN NaN
        ELSE IF i = 7 THEN PInf ELSE Num(3)]
\* The seven fields 0.125 .. 0.875: small positive values with three decimals.
PayloadFine == [i \in DOMAIN ReadingFields |-> Num(i)]
\* A body without its CO2 key, and one whose PM2_5 is a text no float parses.
PayloadPartial == [i \in (DOMAIN ReadingFields) \ {5} |-> Num(8 * i)]
PayloadText == [i \in DOMAIN ReadingFields |-> IF i = 2 THEN Str ELSE Num(8 * i)]
Payloads == {PayloadPlain, PayloadOdd, PayloadFine, PayloadPartial, PayloadText}

\* hours: int, unconstrained.
HoursValues == {-1, 0, 1, 2}

\* Records the store's summary tasks (outside this repository) may have written.
HourlySamples ==
    { Rec("AirQualitySummary", "N1", At(2023, 12, 31, 8, 0, 0), "AQI", Num(0)),
      Rec("AirQualitySummary", "N1", At(2023, 12, 31, 9, 0, 0), "AQI", Num(40)),
      Rec("AirQualitySummary", "N1", At(2023, 12, 31, 9, 0, 30), "AQI", Num(83)),
      Rec("AirQualitySummary", "N1", At(2023, 12, 31, 10, 0, 0), "AQI", Num(80)),
      Rec("AirQualitySummary", "N1", At(2023, 12, 31, 10, 0, 0), "CO2", NInf),
      Rec("AirQualitySummary", "N1", At(2023, 12, 31, 9, 0, 30), "PM1", None) }
DailySamples ==
    { Rec("AirQualitySummary24h", "N1", At(2023, 12, 31, 0, 0, 0), "AQI", Num(-12)),
      Rec("AirQualitySummary24h", "N1", At(2023, 12, 31, 12, 0, 0), "AQI", Num(3)),
      Rec("AirQualitySummary24h", "N1", At(2024, 1, 1, 0, 0, 0), "CO2", NaN),
      Rec("AirQualitySummary24h", "N1", At(2023, 12, 31, 0, 0, 0), "temperature", Str),
      Rec("AirQualitySummary24h", "N2", At(2023, 12, 31, 0, 0, 0), "battery", PInf),
      Rec("AirQualitySummary24h", "N2", At(2024, 1, 1, 0, 0, 0), "PM2_5", PInf),
      Rec("AirQualitySummary24h", "N1", At(2023, 12, 31, 23, 59, 59), "PM10", Num(16)) }
Samples == HourlySamples \cup DailySamples

Months == {<<2023, 12>>, <<2024, 1>>}

\* A month path parameter as month.split('-') sees it: its parts, each one a
\* run of digits (with its value) or a word int() does not parse.
Part(n) == [digits |-> TRUE, n |-> n]
Word == [digits |-> FALSE, n |-> 0]
MonthTexts ==
    { <<Part(m[1]), Part(m[2])>> : m \in Months }
    \cup { <<Part(2024), Part(13)>>, <<Part(2024)>>, <<Part(2024), Word>>,
           <<Part(2024), Part(1), Part(1)>> }
\* Dates as the numbers of "YYYY-MM-DD"; "2024-13-40" and "2023-02-29" are
\* not calendar dates.
\* What the store call of a request raises: nothing, or an exception of the
\* client library, which may be a ValueError (a response it cannot parse).
StoreOutcomes == {"none", "Exception", "ValueError"}

Dates == {<<2023, 12, 31>>, <<2024, 1, 1>>, <<2024, 13, 40>>, <<2023, 2, 29>>}
TimeRanges == {"24h", "7d", "30d", "12h"}
DataTypes == {"AQI", "PM1", "CO2", "temperature", "battery"}

(***************************************************************************)
(* The users table (models.py) and the texts of a request body.  A text is *)
(* a tuple of characters; an Optional argument is <<>> or <<value>>.       *)
(***************************************************************************)
Absent == <<>>
Given(v) == <<v>>

RECURSIVE Lstrip(_)
Lstrip(t) == IF t # <<>> /\ Head(t) = " " THEN Lstrip(Tail(t)) ELSE t

RECURSIVE Rstrip(_)
Rstrip(t) ==
    IF t # <<>> /\ t[Len(t)] = " " THEN Rstrip(SubSeq(t, 1, Len(t) - 1)) ELSE t

\* str.strip()
Strip(t) == Rstrip(Lstrip(t))

\* str.replace(c, "")
Without(t, c) == SelectSeq(t, LAMBDA x : x # c)

\* str.isdigit(): every character a digit, and at least one character.
IsDigit(t) == t # <<>> /\ \A i \in DOMAIN t : t[i] \in {"0", "1", "2"}

ROLE_NODE_OWNER == "ROLE_NODE_OWNER"
ROLE_ADMIN == "ROLE_ADMIN"

Users(id, first_name, last_name, phone, role) ==
    [user_id |-> id, first_name |-> first_name, last_name |-> last_name,
     phone |-> phone, role |-> role]

\* An administrator and a node owner, as register and update_user leave them.
UsersTable ==
    { Users(1, <<"a">>, <<"z">>, <<"0", "1">>, ROLE_ADMIN),
      Users(2, <<"b">>, <<"z">>, <<"0", "2">>, ROLE_NODE_OWNER) }

\* What a request presents: no token, a token that does not decode, or a
\* token whose subject is a user id (the user may have been deleted since).
Bearer(kind, sub) == [kind |-> kind, sub |-> sub]
Bearers == {Bearer("none", 0), Bearer("bad", 0),
            Bearer("jwt", 1), Bearer("jwt", 2), Bearer("jwt", 3)}

\* Bodies of PATCH /update-user.
UpdateUserRequest(user_id, first_name, last_name, phone, role) ==
    [user_id |-> user_id, first_name |-> first_name, last_name |-> last_name,
     phone |-> phone, role |-> role]
UpdateUserBodies ==
    { UpdateUserRequest(Absent, Absent, Absent, Absent, Absent),
      UpdateUserRequest(Absent, Given(<<" ", "c">>), Absent, Absent, Absent),
      UpdateUserRequest(Absent, Absent, Given(<<>>), Given(<<"x">>), Absent),
      UpdateUserRequest(Absent, Absent, Absent, Absent, Given(ROLE_NODE_OWNER)),
      UpdateUserRequest(Absent, Absent, Absent, Absent, Given("ROLE_OTHER")),
      UpdateUserRequest(Given(1), Absent, Absent, Absent, Absent),
      UpdateUserRequest(Given(2), Absent, Absent, Absent, Absent),
      UpdateUserRequest(Given(2), Given(<<"c">>), Absent, Absent, Given(ROLE_ADMIN)),
      UpdateUserRequest(Given(3), Given(<<"c">>), Absent, Absent, Absent) }

\* Bodies of PATCH /update-profile.
UpdateProfileRequest(first_name, last_name, phone) ==
    [first_name |-> first_name, last_name |-> last_name, phone |-> phone]
UpdateProfileBodies ==
    { UpdateProfileRequest(Absent, Absent, Absent),
      UpdateProfileRequest(Given(<<" ", "c">>), Absent, Absent),
      UpdateProfileRequest(Given(<<" ">>), Absent, Absent),
      UpdateProfileRequest(Absent, Given(<<>>), Absent),
      UpdateProfileRequest(Absent, Given(<<"y">>), Given(<<"1", "-", "2", " ">>)),
      UpdateProfileRequest(Absent, Absent, Given(<<"x">>)),
      UpdateProfileRequest(Absent, Absent, Given(<<" ">>)) }

(***************************************************************************)
(* The notification table and the inputs of notification_routes.py.        *)
(***************************************************************************)
Notification(email_id, email, location, is_active) ==
    [email_id |-> email_id, email |-> email, location |-> location,
     is_active |-> is_active]

Emails == {"e1", "e2"}

\* Locations a request names: two with nodes, one without, and two blanks.
RequestLocations == {L1, L2, L3, <<>>, <<" ">>}

\* Node tables with locations: none; one node at each of L1 and L2; both at L1.
LocatedNodeTables ==
    { {},
      {NodesAt("N1", "N1", "T1", 1, L1, STATUS_ONLINE),
       NodesAt("N2", "N2", "T2", 2, L2, STATUS_OFFLINE)},
      {NodesAt("N1", "N1", "T1", 1, L1, STATUS_OFFLINE),
       NodesAt("N2", "N2", "T2", 2, L1, STATUS_OFFLINE)} }

\* Notification tables at the start: empty, or one deactivated subscription.
NotificationTables == { {}, {Notification(1, "e1", L2, FALSE)} }

\* The subscribe requests that can be in flight together.
Workers == {"w1", "w2"}
Idle == [at |-> "idle", email |-> "", location |-> <<>>, found |-> <<>>]

\* No task queued, no delivery made; no subscribe request in flight.
NoTasks == [queue |-> <<>>, last |-> <<>>]
NoRequests == [w \in Workers |-> Idle]

\* Hourly summary records stamped 07:00 Asia/Bangkok of the first day.
SevenAmSamples ==
    { Rec("AirQualitySummary", "N1", At(2024, 1, 1, 0, 0, 0), "AQI", Num(336)),
      Rec("AirQualitySummary", "N2", At(2024, 1, 1, 0, 0, 0), "PM10", Num(-8)) }

(***************************************************************************)
(* State.                                                                  *)
(***************************************************************************)
\* The daily run has not taken place.
NoRun == [state |-> "never", at |-> 0, table |-> {}, sends |-> <<>>,
          queries |-> <<>>]

NoReq == [ep |-> "none"]
NoResp == HTTPException(0, "")

Init ==
    /\ nodes \in NodeTables
    /\ store = {}
    /\ now = StartOfClock
    /\ pc = "idle"
    /\ req = NoReq
    /\ calls = <<>>
    /\ result = <<>>
    /\ resp = NoResp
    /\ users = UsersTable
    /\ credentials = {}
    /\ tokens = {}
    /\ issued = 0
    /\ accepted = <<>>
    /\ subs = {}
    /\ fan = NoRun
    /\ tasks = NoTasks
    /\ inflight = NoRequests

\* The handler's response leaves; the next request starts from a clean slate.
Respond ==
    /\ pc = "done"
    /\ pc' = "idle"
    /\ req' = NoReq
    /\ calls' = <<>>
    /\ result' = <<>>
    /\ resp' = NoResp
    /\ UNCHANGED <<nodes, store, now, account, notify>>

Tick ==
    /\ pc = "idle"
    /\ now < StartOfClock + MaxTicks * TickStep
    /\ now' = now + TickStep
    /\ UNCHANGED <<nodes, store, pc, req, calls, result, resp, account, notify>>

\* A summary task of the store writes one of its records.
StoreTask ==
    /\ pc = "idle"
    /\ Cardinality({r \in store : r.m # "air_quality"}) < MaxRecs
    /\ \E r \in Samples \ store : store' = store \cup {r}
    /\ UNCHANGED <<nodes, now, pc, req, calls, result, resp, account, notify>>

(***************************************************************************)
(* Guards applied to a request's arguments.                                *)
(***************************************************************************)
VerifyNodeToken ==
    /\ pc = "idle"
    /\ \E node_name \in NodeNames \cup {NoName}, node_token \in Tokens :
         \E node \in First(TokenLookup(nodes, node_name, node_token)) :
            LET out == verify_node_token(node_name, node_token, node)
            IN  /\ req' = [ep |-> "verify_node_token", node_name |-> node_name,
                           node_token |-> node_token]
                /\ resp' = IF out.raised THEN out.exc
                           ELSE Success("node", <<out.node>>, NoMeta)
    /\ pc' = "done"
    /\ UNCHANGED <<nodes, store, now, calls, result, account, notify>>

VerifyNodeAccess ==
    /\ pc = "idle"
    /\ \E node_name \in NodeNames, user_id \in UserIds :
         \E node \in First(AccessLookup(nodes, node_name, user_id)) :
            LET out == verify_node_access(node_name, user_id, node)
            IN  /\ req' = [ep |-> "verify_node_access", node_name |-> node_name,
                           user_id |-> user_id]
                /\ resp' = IF out.raised THEN out.exc
                           ELSE Success("node", <<out.node>>, NoMeta)
    /\ pc' = "done"
    /\ UNCHANGED <<nodes, store, now, calls, result, account, notify>>

(***************************************************************************)
(* Handlers of aqi_routes.py.  `failed` is the store call raising.          *)
(***************************************************************************)
Readings(db) == {<<r.node, r.t>> : r \in {x \in db : x.m = "air_quality"}}

\* A request model whose fields are all optional.
AirQualityDataOptional(body) == TRUE

\* class AirQualityData(BaseModel): seven required float fields.  The body is
\* accepted when every key is present and every value is a float.
AirQualityData(body) ==
    /\ DOMAIN body = DOMAIN ReadingFields
    /\ \A i \in DOMAIN body : IsNumber(body[i])

\* What the framework answers when the body does not fit the request model;
\* the handler is not entered.  The answer has no envelope: status 0 and the
\* empty data stand for the keys it lacks.
RequestValidationError ==
    [code |-> 422, status |-> 0, message |-> "validation error",
     data |-> NoData, metadata |-> NoMeta]

\* A point whose temperature and humidity values are paired the wrong way.
PointRecordsSwapped(node_name, t, data) ==
    {Rec("air_quality", node_name, t, ReadingFields[i],
         data[IF i = 6 THEN 7 ELSE IF i = 7 THEN 6 ELSE i]) : i \in DOMAIN data}

\* The point submit_air_quality_data builds: one record per field, stamped by
\* the store with the time of the write.
PointRecords(node_name, t, data) ==
    {Rec("air_quality", node_name, t, ReadingFields[i], data[i]) : i \in DOMAIN data}

\* A point with the measurement, tags and instant of a stored one replaces it.
Written(db, recs) ==
    {r \in db : ~\E w \in recs :
                   w.m = r.m /\ w.node = r.node /\ w.t = r.t /\ w.field = r.field}
    \cup recs

submit_air_quality_data ==
    /\ pc = "idle"
    /\ Cardinality(Readings(store)) < MaxReadings
    /\ \E node_token \in Tokens, data \in Payloads, failed \in BOOLEAN :
         \E node \in First(TokenLookup(nodes, NoName, node_token)) :
            LET out == verify_node_token(NoName, node_token, node)
                recs == PointRecords(out.node.node_name, now, data)
            IN  /\ req' = [ep |-> "submit", node_token |-> node_token, data |-> data,
                           failed |-> failed]
                /\ IF ~AirQualityData(data)
                   THEN /\ resp' = RequestValidationError
                        /\ calls' = <<>>
                        /\ store' = store
                   ELSE IF out.raised
                   THEN /\ resp' = out.exc
                        /\ calls' = <<>>
                        /\ store' = store
                   ELSE /\ calls' = <<Write("air_quality", out.node.node_name, now,
                                            Range(ReadingFields))>>
                        /\ IF failed
                           THEN /\ resp' = HTTPException(500, "Failed to write data")
                                /\ store' = store
                           ELSE /\ resp' = Success(
                                       "Air quality data recorded successfully",
                                       [node_name |-> out.node.node_name,
                                        timestamp |-> now],
                                       NoMeta)
                                /\ store' = Written(store, recs)
    /\ pc' = "done"
    /\ UNCHANGED <<nodes, now, result, account, notify>>

\* The pipeline get_air_quality_data builds: range(start: -{hours}h), stop
\* being the instant of the query, and aggregateWindow(every: {hours}h).
WindowQuery(node_name, hours, t) ==
    Query("air_quality", node_name, Range(ReadingFields),
          t - hours * Hour, t, hours * Hour)

get_air_quality_data ==
    /\ pc = "idle"
    /\ \E node_name \in NodeNames, hours \in HoursValues,
          user_id \in OptionalUserIds, failed \in BOOLEAN :
         \E node \in (IF TruthyInt(user_id)
                      THEN First(AccessLookup(nodes, node_name, user_id[1]))
                      ELSE {NoNode}) :
            LET access == IF TruthyInt(user_id)
                          THEN verify_node_access(node_name, user_id[1], node)
                          ELSE Return(NoNode)
                q == WindowQuery(node_name, hours, now)
                records == IF failed THEN <<>>
                           ELSE InSeriesOrder(QueryResult(store, q))
            IN  /\ req' = [ep |-> "window", node_name |-> node_name,
                           hours |-> hours, user_id |-> user_id,
                           failed |-> failed]
                /\ IF access.raised
                   THEN /\ resp' = access.exc
                        /\ calls' = <<>>
                        /\ result' = <<>>
                   ELSE /\ calls' = <<q>>
                        /\ result' = records
                        /\ resp' = process_aggregated_query(
                                       records, failed \/ FluxFails(store, q),
                                       hours, node_name)
    /\ pc' = "done"
    /\ UNCHANGED <<nodes, store, now, account, notify>>

\* The pipeline get_months_with_data builds: range(start: -5y), the node's
\* air_quality records, their _time column only.
MonthsQuery(node_name, t) ==
    RangeQuery("air_quality", node_name, {}, t - 5 * 365 * Day, t)

get_months_with_data ==
    /\ pc = "idle"
    /\ \E node_name \in NodeNames, failed \in BOOLEAN :
         LET q == MonthsQuery(node_name, now)
             records == IF failed THEN <<>>
                        ELSE InSeriesOrder(QueryResult(store, q))
             months_set == {StrfMonth(records[i].t) : i \in DOMAIN records}
         IN  /\ req' = [ep |-> "months", node_name |-> node_name, failed |-> failed]
             /\ calls' = <<q>>
             /\ result' = records
             /\ resp' = IF failed THEN InternalError
                        ELSE Success("months fetched", SortedTexts(months_set), NoMeta)
    /\ pc' = "done"
    /\ UNCHANGED <<nodes, store, now, account, notify>>

Next ==
    \/ Tick
    \/ VerifyNodeToken
    \/ VerifyNodeAccess
    \/ submit_air_quality_data
    \/ get_air_quality_data
    \/ get_months_with_data
    \/ Respond

Spec == Init /\ [][Next]_vars

(***************************************************************************)
(* The summary and graph handlers.                                         *)
(***************************************************************************)
\* get_daily_summary_24h, lines 298-310: the month's range.
DailyQuery(node_name, month) ==
    LET year == month[1]
        mon == month[2]
        start_date == At(year, mon, 1, 0, 0, 0)
        end_date == IF mon = 12 THEN At(year + 1, 1, 1, 0, 0, 0) - 1
                    ELSE At(year, mon + 1, 1, 0, 0, 0) - 1
    IN  RangeQuery("AirQualitySummary24h", node_name, {}, start_date, end_date)

\* Lines 298-299: year, mon = map(int, month.split('-')) and
\* datetime(year, mon, 1) raise ValueError unless the text is two runs of
\* digits, the second a month of the calendar.
MonthRaises(text) ==
    \/ Len(text) # 2
    \/ \E i \in DOMAIN text : ~text[i].digits
    \/ text[2].n \notin 1..12

get_daily_summary_24h ==
    /\ pc = "idle"
    /\ \E node_name \in NodeNames, text \in MonthTexts, failed \in BOOLEAN :
         IF MonthRaises(text)
         THEN /\ req' = [ep |-> "daily", node_name |-> node_name, text |-> text,
                         month |-> <<>>, failed |-> failed]
              /\ calls' = <<>>
              /\ result' = <<>>
              /\ resp' = InternalError
         ELSE
         LET month == <<text[1].n, text[2].n>>
             q == DailyQuery(node_name, month)
         IN  \E records \in (IF failed THEN {<<>>}
                             ELSE ArrivalOrders(QueryResult(store, q))) :
                /\ req' = [ep |-> "daily", node_name |-> node_name, text |-> text,
                               month |-> month, failed |-> failed]
                /\ calls' = <<q>>
                /\ result' = records
                /\ resp' = IF failed THEN InternalError
                           ELSE LET data == DailyRows(records)
                                IN  Success("daily summary fetched", data,
                                            [node_name |-> node_name, month |-> month,
                                             total_days |-> Len(data)])
    /\ pc' = "done"
    /\ UNCHANGED <<nodes, store, now, account, notify>>

\* A parse that checks the month and takes any day up to 31.
StrptimeChecksMonthOnly(date) == ~(date[2] \in 1..12 /\ date[3] \in 1..31)

\* datetime.strptime(date, "%Y-%m-%d") raises ValueError unless the month and
\* the day exist in the calendar.
StrptimeRaises(date) ==
    ~(date[2] \in 1..12 /\ date[3] \in 1..DaysInMonth(date[1], date[2]))

\* get_hourly_summary, lines 370-379: the date's range.
HourlyQuery(node_name, date) ==
    LET start_date == At(date[1], date[2], date[3], 0, 0, 0)
        end_date == start_date + Day - 1
    IN  RangeQuery("AirQualitySummary", node_name, {}, start_date, end_date)

get_hourly_summary ==
    /\ pc = "idle"
    /\ \E node_name \in NodeNames, date \in Dates, raised \in StoreOutcomes :
         /\ req' = [ep |-> "hourly", node_name |-> node_name, date |-> date,
                    failed |-> raised # "none", raised |-> raised]
         /\ IF StrptimeRaises(date)
            THEN /\ resp' = HTTPException(400, "invalid date format, use YYYY-MM-DD")
                 /\ calls' = <<>>
                 /\ result' = <<>>
            ELSE LET q == HourlyQuery(node_name, date)
                 IN  \E records \in (IF raised # "none" THEN {<<>>}
                                     ELSE ArrivalOrders(QueryResult(store, q))) :
                        /\ calls' = <<q>>
                        /\ result' = records
                        /\ resp' = IF raised = "ValueError"
                                   THEN HTTPException(400,
                                            "invalid date format, use YYYY-MM-DD")
                                   ELSE IF raised # "none" THEN InternalError
                                   ELSE LET data == HourlyRows(records)
                                        IN  Success("hourly summary fetched", data,
                                                [node_name |-> node_name,
                                                 date |-> date,
                                                 total_hours |-> Len(data)])
    /\ pc' = "done"
    /\ UNCHANGED <<nodes, store, now, account, notify>>

\* A selection that reads the hourly measurement for every range.
GraphMeasurementAlwaysHourly(time_range) == "AirQualitySummary"

\* get_graph_data, lines 466-474.
GraphWindow(time_range) == IF time_range = "24h" THEN "1h" ELSE "1d"
GraphMeasurement(time_range) ==
    IF time_range = "24h" THEN "AirQualitySummary" ELSE "AirQualitySummary24h"

\* Flux durations.
Duration(text) ==
    IF text = "1h" THEN Hour
    ELSE IF text = "24h" THEN 24 * Hour
    ELSE IF text = "1d" THEN Day
    ELSE IF text = "7d" THEN 7 * Day
    ELSE 30 * Day

\* get_graph_data, lines 476-484 (the final sort is the delivery order).
GraphQuery(node_name, time_range, data_type, t) ==
    Query(GraphMeasurement(time_range), node_name, {data_type},
          t - Duration(time_range), t, Duration(GraphWindow(time_range)))

get_graph_data ==
    /\ pc = "idle"
    /\ \E node_name \in NodeNames, time_range \in TimeRanges,
          data_type \in DataTypes, failed \in BOOLEAN :
         LET q == GraphQuery(node_name, time_range, data_type, now)
             records == IF failed \/ FluxFails(store, q) THEN <<>>
                        ELSE InSeriesOrder(QueryResult(store, q))
             graph_data == GraphData(records, time_range)
             values == PositiveValues(graph_data)
         IN  /\ req' = [ep |-> "graph", node_name |-> node_name,
                        time_range |-> time_range, data_type |-> data_type,
                        failed |-> failed]
             /\ IF time_range \notin valid_time_ranges
                THEN /\ resp' = HTTPException(400,
                                  MustBeOneOf("time_range", valid_time_ranges))
                     /\ calls' = <<>>
                     /\ result' = <<>>
                ELSE IF data_type \notin valid_data_types
                THEN /\ resp' = HTTPException(400,
                                  MustBeOneOf("data_type", valid_data_types))
                     /\ calls' = <<>>
                     /\ result' = <<>>
                ELSE /\ calls' = <<q>>
                     /\ result' = records
                     /\ IF failed \/ FluxFails(store, q)
                        THEN resp' = InternalError
                        ELSE \E avg \in (IF values = <<>> THEN {0}
                                         ELSE AvgOutcomes(values)) :
                               resp' = Success("graph fetched", graph_data,
                                   [node_name |-> node_name,
                                    time_range |-> time_range,
                                    data_type |-> data_type,
                                    window |-> GraphWindow(time_range),
                                    measurement |-> GraphMeasurement(time_range),
                                    total_points |-> Len(graph_data),
                                    statistics |-> Statistics(values, avg)])
    /\ pc' = "done"
    /\ UNCHANGED <<nodes, store, now, account, notify>>

NextSummary ==
    \/ Tick
    \/ StoreTask
    \/ get_daily_summary_24h
    \/ get_hourly_summary
    \/ get_graph_data
    \/ Respond

SpecSummary == Init /\ [][NextSummary]_vars

(***************************************************************************)
(* The profile handlers of user_routes.py.  `failed` is db.commit raising. *)
(***************************************************************************)
CustomHTTPException(status_code, message) == HTTPException(status_code, message)

\* get_current_user: the row of the token's subject, or a 401.
get_current_user(bearer, table) ==
    IF bearer.kind = "none" THEN Raise(401, "please log in")
    ELSE IF bearer.kind = "bad" THEN Raise(401, "token expired or invalid")
    ELSE LET rows == {u \in table : u.user_id = bearer.sub}
         IN  IF rows = {} THEN Raise(401, "user not found")
             ELSE Return(CHOOSE u \in rows : TRUE)

\* The table after the session's changes to one row are committed.
Committed(table, row) == {u \in table : u.user_id # row.user_id} \cup {row}

\* update_user, lines 574-586: the row the request may change, or the error.
TargetUser(current_user, body, table) ==
    IF current_user.role = ROLE_ADMIN /\ body.user_id # Absent
    THEN IF body.user_id[1] # current_user.user_id
         THEN LET rows == {u \in table : u.user_id = body.user_id[1]}
              IN  IF rows = {} THEN Raise(404, "user not found")
                  ELSE Return(CHOOSE u \in rows : TRUE)
         ELSE Return(current_user)
    ELSE IF body.user_id # Absent
         THEN Raise(403, "not allowed to change another user")
         ELSE Return(current_user)

\* update_user, lines 588-615: the fields assigned to the row, in order.
UpdatedUser(target_user, body) ==
    [target_user EXCEPT
        !.first_name = IF body.first_name # Absent THEN body.first_name[1] ELSE @,
        !.last_name = IF body.last_name # Absent THEN body.last_name[1] ELSE @,
        !.phone = IF body.phone # Absent THEN body.phone[1] ELSE @,
        !.role = IF body.role # Absent THEN body.role[1] ELSE @]

UpdatedFields(body) ==
    {f \in {"first_name", "last_name", "phone", "role"} : body[f] # Absent}

update_user ==
    /\ pc = "idle"
    /\ \E bearer \in Bearers, body \in UpdateUserBodies, failed \in BOOLEAN :
         LET auth == get_current_user(bearer, users)
             target == TargetUser(auth.node, body, users)
             row == UpdatedUser(target.node, body)
         IN  /\ req' = [ep |-> "update_user", bearer |-> bearer, body |-> body,
                        failed |-> failed]
             /\ IF auth.raised
                THEN resp' = auth.exc /\ users' = users
                ELSE IF target.raised
                THEN resp' = target.exc /\ users' = users
                ELSE IF body.role # Absent /\ auth.node.role # ROLE_ADMIN
                THEN /\ resp' = CustomHTTPException(403, "not allowed to change role")
                     /\ users' = users
                ELSE IF /\ body.role # Absent
                        /\ body.role[1] \notin {ROLE_NODE_OWNER, ROLE_ADMIN}
                THEN /\ resp' = CustomHTTPException(400, "invalid role")
                     /\ users' = users
                ELSE IF UpdatedFields(body) = {}
                THEN /\ resp' = ReturnDict(0, "nothing to update", target.node)
                     /\ users' = users
                ELSE IF failed
                THEN /\ resp' = CustomHTTPException(500, "error")
                     /\ users' = users
                ELSE /\ resp' = ReturnDict(1, "updated", row)
                     /\ users' = Committed(users, row)
    /\ pc' = "done"
    /\ UNCHANGED <<nodes, store, now, calls, result, notify, verification>>

\* update_profile, lines 692-708: the first check that fails, if any.
ProfileError(body) ==
    IF body.first_name # Absent /\ Strip(body.first_name[1]) = <<>>
    THEN Given("first name cannot be empty")
    ELSE IF body.last_name # Absent /\ Strip(body.last_name[1]) = <<>>
    THEN Given("last name cannot be empty")
    ELSE IF /\ body.phone # Absent
            /\ Strip(body.phone[1]) # <<>>
            /\ ~IsDigit(Without(Without(Strip(body.phone[1]), "-"), " "))
    THEN Given("invalid phone number")
    ELSE Absent

UpdatedProfile(current_user, body) ==
    [current_user EXCEPT
        !.first_name = IF body.first_name # Absent
                       THEN Strip(body.first_name[1]) ELSE @,
        !.last_name = IF body.last_name # Absent
                      THEN Strip(body.last_name[1]) ELSE @,
        !.phone = IF body.phone # Absent THEN Strip(body.phone[1]) ELSE @]

update_profile ==
    /\ pc = "idle"
    /\ \E bearer \in Bearers, body \in UpdateProfileBodies, failed \in BOOLEAN :
         LET auth == get_current_user(bearer, users)
             row == UpdatedProfile(auth.node, body)
             updated_fields ==
                 {f \in {"first_name", "last_name", "phone"} : body[f] # Absent}
         IN  /\ req' = [ep |-> "update_profile", bearer |-> bearer, body |-> body,
                        failed |-> failed]
             /\ IF auth.raised
                THEN resp' = auth.exc /\ users' = users
                ELSE IF ProfileError(body) # Absent
                THEN /\ resp' = CustomHTTPException(400, ProfileError(body)[1])
                     /\ users' = users
                ELSE IF updated_fields = {}
                THEN /\ resp' = ReturnDict(0, "nothing to update", auth.node)
                     /\ users' = users
                ELSE IF failed
                THEN /\ resp' = CustomHTTPException(500, "error")
                     /\ users' = users
                ELSE /\ resp' = ReturnDict(1, "updated", row)
                     /\ users' = Committed(users, row)
    /\ pc' = "done"
    /\ UNCHANGED <<nodes, store, now, calls, result, notify, verification>>

NextAccount ==
    \/ update_user
    \/ update_profile
    \/ Respond

SpecAccount == Init /\ [][NextAccount]_vars

(***************************************************************************)
(* notification_routes.py.                                                 *)
(***************************************************************************)
InitNotify ==
    /\ nodes \in LocatedNodeTables
    /\ store \in SUBSET SevenAmSamples
    /\ now = StartOfClock
    /\ pc = "idle"
    /\ req = NoReq
    /\ calls = <<>>
    /\ result = <<>>
    /\ resp = NoResp
    /\ users = UsersTable
    /\ credentials = {}
    /\ tokens = {}
    /\ issued = 0
    /\ accepted = <<>>
    /\ subs \in NotificationTables
    /\ fan = NoRun
    /\ tasks = NoTasks
    /\ inflight = NoRequests

\* ord() of the characters of a location.
Ord(c) == IF c = " " THEN 32 ELSE IF c = "1" THEN 49 ELSE IF c = "2" THEN 50
          ELSE IF c = "3" THEN 51 ELSE 76
Ords(text) == [i \in DOMAIN text |-> Ord(text[i])]

RECURSIVE SortedLocations(_)
\* list.sort(key=location) over distinct locations.
SortedLocations(S) ==
    IF S = {} THEN <<>>
    ELSE LET a == CHOOSE x \in S : \A y \in S : x = y \/ TextLess(Ords(x), Ords(y))
         IN  <<a>> \o SortedLocations(S \ {a})

\* Query.all(): the rows in some order.
All(rows) == CHOOSE s \in ArrivalOrders(rows) : TRUE

\* get_available_locations, lines 131-144: one entry of the list.
LocationEntry(location, table) ==
    LET total_nodes == Cardinality({n \in table : n.location = location})
        online_nodes == Cardinality({n \in table : /\ n.location = location
                                                   /\ n.status = STATUS_ONLINE})
    IN  [location |-> location, total_nodes |-> total_nodes,
         online_nodes |-> online_nodes, available |-> online_nodes > 0]

get_available_locations ==
    /\ pc = "idle"
    /\ \E failed \in BOOLEAN :
         LET locations == SortedLocations({n.location : n \in nodes})
             result_locations ==
                 [i \in DOMAIN locations |-> LocationEntry(locations[i], nodes)]
         IN  /\ req' = [ep |-> "locations", failed |-> failed]
             /\ resp' =
                  IF failed THEN HTTPException(500, "error")
                  ELSE IF result_locations = <<>>
                  THEN ReturnDict(0, "no location available yet", <<>>)
                  ELSE Success("locations fetched", result_locations,
                          [total_locations |-> Len(result_locations),
                           available_locations |->
                               Cardinality({i \in DOMAIN result_locations :
                                               result_locations[i].available})])
    /\ pc' = "done"
    /\ UNCHANGED <<nodes, store, now, calls, result, account, notify>>

\* validate_location
validate_location(location, table) == \E n \in table : n.location = location

\* background_tasks.add_task(send_welcome_email, email, location)
BackgroundTask(email, location) ==
    [op |-> "send_welcome_email", email |-> email, location |-> location]

\* .filter(Notification.email == email).first(): <<>> for None, else a row.
SubscriptionLookup(table, email) ==
    LET rows == {n \in table : n.email = email}
    IN  IF rows = {} THEN {<<>>} ELSE {<<n>> : n \in rows}

\* The branch of lines 196-256 a request takes, given the row it found.
SubscribeBranch(found, location) ==
    IF found = <<>> THEN "created"
    ELSE IF ~found[1].is_active THEN "reactivated"
    ELSE IF found[1].location # location THEN "moved"
    ELSE "kept"

\* A handler that also greets a subscriber who moves.
IsNewSubscriptionOrMoved(branch) == branch # "kept"

\* is_new_subscription
IsNewSubscription(branch) == branch \in {"created", "reactivated"}

\* The key the database gives a new row.
NextEmailId(table) ==
    1 + (CHOOSE m \in {0} \cup {n.email_id : n \in table} :
            \A n \in table : n.email_id <= m)

\* The notification table after the commit of a request that found `found`:
\* a new row, or the found row with the attributes the handler changed.
SubscriptionSaved(table, found, email, location) ==
    LET branch == SubscribeBranch(found, location)
    IN  IF branch = "created"
        THEN table \cup {Notification(NextEmailId(table), email, location, TRUE)}
        ELSE IF branch = "kept" THEN table
        ELSE { IF n.email_id # found[1].email_id THEN n
               ELSE [n EXCEPT !.is_active = IF branch = "reactivated" THEN TRUE ELSE @,
                              !.location = IF found[1].location # location
                                           THEN location ELSE @] : n \in table }

\* The tasks once a request that took `branch` has answered.
Scheduled(queue, branch, email, location) ==
    IF IsNewSubscription(branch)
    THEN [queue EXCEPT !.queue = Append(@, BackgroundTask(email, location))]
    ELSE queue

\* A subscribe request running alone: lookup and commit in one step.
subscribe_notification ==
    /\ pc = "idle"
    /\ \E email \in Emails, location \in RequestLocations, failed \in BOOLEAN :
         \E found \in SubscriptionLookup(subs, email) :
         LET branch == SubscribeBranch(found, location)
             table == SubscriptionSaved(subs, found, email, location)
         IN  /\ req' = [ep |-> "subscribe", email |-> email, location |-> location,
                        failed |-> failed]
             /\ IF Strip(location) = <<>>
                THEN /\ resp' = CustomHTTPException(400, "choose a location")
                     /\ subs' = subs /\ tasks' = tasks
                ELSE IF ~validate_location(location, nodes)
                THEN /\ resp' = CustomHTTPException(400, "no node in location")
                     /\ subs' = subs /\ tasks' = tasks
                ELSE IF branch = "kept"
                THEN /\ resp' = ReturnDict(1, "already subscribed", found[1])
                     /\ subs' = subs /\ tasks' = tasks
                ELSE IF failed
                THEN /\ resp' = HTTPException(500, "error")
                     /\ subs' = subs /\ tasks' = tasks
                ELSE /\ resp' = ReturnDict(1, branch,
                                    CHOOSE n \in table :
                                        IF found = <<>> THEN n \notin subs
                                        ELSE n.email_id = found[1].email_id)
                     /\ subs' = table
                     /\ tasks' = Scheduled(tasks, branch, email, location)
    /\ pc' = "done"
    /\ UNCHANGED <<nodes, store, now, calls, result, account, fan, inflight>>

\* send_welcome_email run as a background task, once no response is being
\* built: True when the SMTP exchange succeeds, False when it raises.
send_welcome_email ==
    /\ pc = "idle"
    /\ tasks.queue # <<>>
    /\ \E ok \in BOOLEAN :
         tasks' = [queue |-> Tail(tasks.queue),
                   last |-> <<[email |-> Head(tasks.queue).email, ok |-> ok]>>]
    /\ UNCHANGED <<nodes, store, now, pc, req, calls, result, resp, account, subs,
                   fan, inflight>>

get_subscribers_by_location ==
    /\ pc = "idle"
    /\ \E location \in RequestLocations, failed \in BOOLEAN :
         LET subscribers == {n \in subs : n.location = location /\ n.is_active}
         IN  /\ req' = [ep |-> "subscribers", location |-> location,
                        failed |-> failed]
             /\ resp' = IF failed THEN HTTPException(500, "error")
                        ELSE Success("subscribers fetched",
                                     All({n.email : n \in subscribers}),
                                     [location |-> location,
                                      total_subscribers |-> Cardinality(subscribers)])
    /\ pc' = "done"
    /\ UNCHANGED <<nodes, store, now, calls, result, account, notify>>

(***************************************************************************)
(* The daily notification run.                                             *)
(***************************************************************************)
\* now.replace(hour=7, minute=0, second=0) in Asia/Bangkok, as a UTC instant.
SevenAm(t) ==
    ((t + BangkokOffset) \div Day) * Day + 7 * Hour - BangkokOffset

\* The fields get_avg_data_for_location_at_7am filters on and reads.
SevenAmFields == {"AQI", "PM1", "PM2.5", "PM4", "PM10", "Temperature", "Humidity"}

\* The pipeline of lines 71-78: range(start: 7am, stop: 7am) over the
\* location's nodes.
SevenAmQuery(node_names, t) ==
    [op |-> "query", m |-> "AirQualitySummary", node |-> node_names,
     fields |-> SevenAmFields, start |-> SevenAm(t), stop |-> SevenAm(t),
     agg |-> FALSE, every |-> 0]

\* The records of a pipeline over several nodes.
SelectedAmong(db, q) ==
    {r \in db : /\ r.m = q.m
                /\ r.node \in q.node
                /\ r.field \in q.fields
                /\ q.start <= r.t
                /\ r.t < q.stop}

\* Lines 87-93: the values of a field that enter its average.
Averaged(rows, field) ==
    {r \in rows : /\ r.field = field
                  /\ IsNumber(r.v)
                  /\ \/ field \in {"Temperature", "Humidity"}
                     \/ r.v.k = "inf"
                     \/ r.v.k = "num" /\ r.v.n >= 0}

\* Lines 95-105: the averages, or no data when every field is without one.
AverageData(rows) ==
    LET fields == {r.field : r \in {x \in rows : x.v.k # "none"}}
        result_data == [f \in fields |->
                           IF Averaged(rows, f) = {} THEN None
                           ELSE FluxMean(Averaged(rows, f))]
    IN  IF \A f \in fields : result_data[f] = None THEN <<>>
        ELSE <<result_data>>

\* get_avg_data_for_location_at_7am: raised is the store call failing; avg is
\* <<>> for None.  `failed` is the store being down; `rejects` is the store
\* refusing a range without extent rather than answering it with no records.
get_avg_data_for_location_at_7am(location, table, db, t, failed, rejects) ==
    LET node_names == {n.node_name : n \in {x \in table : x.location = location}}
        q == SevenAmQuery(node_names, t)
    IN  IF node_names = {} THEN [raised |-> FALSE, avg |-> <<>>]
        ELSE IF failed \/ (rejects /\ FluxFails(db, q))
             THEN [raised |-> TRUE, avg |-> <<>>]
        ELSE [raised |-> FALSE, avg |-> AverageData(SelectedAmong(db, q))]

\* send_daily_aqi_email: True when the SMTP exchange succeeds, False when it
\* raises; the exception is caught inside.
send_daily_aqi_email(email, location, failing) ==
    [email |-> email, location |-> location, ok |-> email \notin failing]

RECURSIVE FanOut(_, _, _, _)
\* The loop of send_daily_aqi_email_to_subscribers over the locations: the
\* sends attempted, the queries sent to the store, and whether an exception
\* ended the run.
FanOut(locations, failing, failed, rejects) ==
    IF locations = <<>> THEN [raised |-> FALSE, sends |-> <<>>, queries |-> <<>>]
    ELSE LET location == Head(locations)
             node_names == {n.node_name : n \in {x \in nodes : x.location = location}}
             asked == IF node_names = {} THEN <<>>
                      ELSE <<SevenAmQuery(node_names, now)>>
             data == get_avg_data_for_location_at_7am(location, nodes, store,
                                                      now, failed, rejects)
             subscribers == All({x \in subs : x.location = location /\ x.is_active})
             mine == [i \in DOMAIN subscribers |->
                         send_daily_aqi_email(subscribers[i].email, location,
                                              failing)]
             rest == FanOut(Tail(locations), failing, failed, rejects)
         IN  IF data.raised
             THEN [raised |-> TRUE, sends |-> <<>>, queries |-> asked]
             ELSE IF data.avg = <<>>
             THEN [rest EXCEPT !.queries = asked \o @]
             ELSE [raised |-> rest.raised, sends |-> mine \o rest.sends,
                   queries |-> asked \o rest.queries]

\* One run of the daily job: `failing` are the addresses whose delivery
\* fails, `failed` is the store being down, `rejects` is how the store treats
\* a range without extent.
send_daily_aqi_email_to_subscribers ==
    /\ pc = "idle"
    /\ \E locations \in ArrivalOrders({n.location : n \in {x \in subs : x.is_active}}),
          failing \in SUBSET Emails, failed \in BOOLEAN, rejects \in BOOLEAN :
         LET run == FanOut(locations, failing, failed, rejects)
         IN  fan' = [state |-> IF run.raised THEN "raised" ELSE "completed",
                     at |-> now, table |-> subs, sends |-> run.sends,
                     queries |-> run.queries]
    /\ UNCHANGED <<nodes, store, now, pc, req, calls, result, resp, account, subs,
                   tasks, inflight>>

NextNotify ==
    \/ Tick
    \/ get_available_locations
    \/ subscribe_notification
    \/ get_subscribers_by_location
    \/ send_daily_aqi_email_to_subscribers
    \/ Respond

SpecNotify == InitNotify /\ [][NextNotify]_vars

(***************************************************************************)
(* Subscribe requests that overlap: each one looks the email up, and       *)
(* commits later on what it found.                                         *)
(***************************************************************************)
InitSubscribe ==
    /\ nodes = {NodesAt("N1", "N1", "T1", 1, L1, STATUS_ONLINE),
                NodesAt("N2", "N2", "T2", 2, L2, STATUS_OFFLINE)}
    /\ store = {}
    /\ now = StartOfClock
    /\ pc = "idle"
    /\ req = NoReq
    /\ calls = <<>>
    /\ result = <<>>
    /\ resp = NoResp
    /\ users = UsersTable
    /\ credentials = {}
    /\ tokens = {}
    /\ issued = 0
    /\ accepted = <<>>
    /\ subs \in NotificationTables
    /\ fan = NoRun
    /\ tasks = NoTasks
    /\ inflight = NoRequests

\* Lines 175-192 of a request that passes the location checks: the lookup.
subscribe_lookup ==
    \E w \in Workers, email \in Emails, location \in RequestLocations :
        /\ inflight[w].at = "idle"
        /\ Strip(location) # <<>>
        /\ validate_location(location, nodes)
        /\ \E found \in SubscriptionLookup(subs, email) :
              inflight' = [inflight EXCEPT ![w] =
                              [at |-> "found", email |-> email,
                               location |-> location, found |-> found]]
        /\ UNCHANGED <<nodes, store, now, pc, req, calls, result, resp, account,
                       subs, fan, tasks>>

\* Lines 196-274 of that request: the commit of what it decided on the row it
\* found, and its answer; a commit that raises is rolled back.
subscribe_commit ==
    \E w \in Workers, failed \in BOOLEAN :
        LET r == inflight[w]
            branch == SubscribeBranch(r.found, r.location)
        IN  /\ r.at = "found"
            /\ inflight' = [inflight EXCEPT ![w] = Idle]
            /\ IF failed \/ branch = "kept"
               THEN subs' = subs /\ tasks' = tasks
               ELSE /\ subs' = SubscriptionSaved(subs, r.found, r.email, r.location)
                    /\ tasks' = Scheduled(tasks, branch, r.email, r.location)
            /\ UNCHANGED <<nodes, store, now, pc, req, calls, result, resp, account,
                           fan>>

NextSubscribe == subscribe_lookup \/ subscribe_commit \/ send_welcome_email

SpecSubscribe == InitSubscribe /\ [][NextSubscribe]_vars

\* Subscribe requests one at a time, and their welcome emails.
NextWelcome == subscribe_notification \/ send_welcome_email \/ Respond

SpecWelcome == InitSubscribe /\ [][NextWelcome]_vars

(***************************************************************************)
(* The node routes (node_routes.py).  A text of a request body is its      *)
(* stripped core and whether whitespace surrounds it; stored names carry   *)
(* none.  `failed` is db.commit raising for a reason of the database's own.*)
(***************************************************************************)
Padded(core, pad) == [core |-> core, pad |-> pad]

\* Python truthiness of a str: any character, whitespace included.
TruthyPadded(x) == x.core # "" \/ x.pad

\* class NodeRequest: node_name, location.
NodeRequest(node_name, location) == [node_name |-> node_name, location |-> location]
NodeRequests ==
    { NodeRequest(Padded(n, p), Padded(l, FALSE)) :
        n \in {"N1", "N2"}, p \in BOOLEAN, l \in {L1} }
    \cup { NodeRequest(Padded("", TRUE), Padded(L1, FALSE)),
           NodeRequest(Padded("N1", FALSE), Padded(<<>>, TRUE)) }

\* secrets.token_urlsafe(32): any token, one already handed out included.
TokenPool == {"T1", "T2"}

\* class UpdateNodeRequest: node_id, and the optional node_name and status
\* (<<>> when the body leaves the key out).
UpdateNodeRequest(node_id, node_name, status) ==
    [node_id |-> node_id, node_name |-> node_name, status |-> status]
UpdateNodeBodies ==
    { UpdateNodeRequest(id, name, status) :
        id \in {"N1", "N2", "N3"},
        name \in {Absent, Given(Padded("N1", FALSE)), Given(Padded("N2", TRUE)),
                  Given(Padded("", TRUE))},
        status \in {Absent, Given(1), Given(5)} }

\* Whoever presents a request to the node routes.
NodeBearers == {Bearer("none", 0), Bearer("jwt", 1), Bearer("jwt", 2)}

\* The nodes table without its unique constraint on node_token.
NodeConstraintsWithoutUnique(table) ==
    /\ \A a, b \in table : a.node_id = b.node_id => a = b
    /\ \A a \in table : a.status \in {0, 1}

\* class Nodes: node_id is the primary key, node_token is unique, status is
\* one of the two statuses.  A commit that would break one of them raises.
NodeConstraints(table) ==
    /\ \A a, b \in table : a.node_id = b.node_id => a = b
    /\ \A a, b \in table : a.node_token = b.node_token => a = b
    /\ \A a \in table : a.status \in {0, 1}

InitNode ==
    /\ nodes = {}
    /\ store = {}
    /\ now = StartOfClock
    /\ pc = "idle"
    /\ req = NoReq
    /\ calls = <<>>
    /\ result = <<>>
    /\ resp = NoResp
    /\ users = UsersTable
    /\ credentials = {}
    /\ tokens = {}
    /\ issued = 0
    /\ accepted = <<>>
    /\ subs = {}
    /\ fan = NoRun
    /\ tasks = NoTasks
    /\ inflight = NoRequests

add_node ==
    /\ pc = "idle"
    /\ \E bearer \in NodeBearers, body \in NodeRequests,
          node_token \in TokenPool, failed \in BOOLEAN :
         LET who == get_current_user(bearer, users)
             current_user == who.node
             node_id == body.node_name.core
             existing_name == {n \in nodes : /\ n.node_name = body.node_name.core
                                             /\ n.user_id = current_user.user_id}
             existing_id == {n \in nodes : n.node_id = node_id}
             new_node == NodesAt(node_id, body.node_name.core, node_token,
                                 current_user.user_id, body.location.core, 0)
         IN  /\ req' = [ep |-> "add_node", bearer |-> bearer, body |-> body,
                        node_token |-> node_token, failed |-> failed]
             /\ IF who.raised
                THEN resp' = who.exc /\ nodes' = nodes
                ELSE IF body.node_name.core = "" \/ body.location.core = <<>>
                THEN resp' = HTTPException(400, "fill in every field") /\ nodes' = nodes
                ELSE IF existing_name # {}
                THEN resp' = HTTPException(409, "name taken in your account")
                     /\ nodes' = nodes
                ELSE IF existing_id # {}
                THEN resp' = HTTPException(409, "name taken in the system")
                     /\ nodes' = nodes
                ELSE IF failed \/ ~NodeConstraints(nodes \cup {new_node})
                THEN resp' = HTTPException(500, "unexpected error") /\ nodes' = nodes
                ELSE /\ resp' = Success("node added", new_node, NoMeta)
                     /\ nodes' = nodes \cup {new_node}
    /\ pc' = "done"
    /\ UNCHANGED <<store, now, calls, result, account, notify>>

\* update_node, lines 382-386: the row with every key of the body set,
\* texts stripped.
UpdatedNode(node, body) ==
    [node EXCEPT
        !.node_name = IF body.node_name = Absent THEN @ ELSE body.node_name[1].core,
        !.status = IF body.status = Absent THEN @ ELSE body.status[1]]

update_node ==
    /\ pc = "idle"
    /\ \E bearer \in NodeBearers, body \in UpdateNodeBodies, failed \in BOOLEAN :
         LET who == get_current_user(bearer, users)
             current_user == who.node
             rows == {n \in nodes : /\ n.node_id = body.node_id
                                    /\ n.user_id = current_user.user_id}
             node == CHOOSE n \in rows : TRUE
             renamed == /\ body.node_name # Absent
                        /\ TruthyPadded(body.node_name[1])
                        /\ \/ body.node_name[1].pad
                           \/ body.node_name[1].core # node.node_name
             existing == {n \in nodes : /\ n.node_name = body.node_name[1].core
                                        /\ n.user_id = current_user.user_id
                                        /\ n.node_id # body.node_id}
             table == (nodes \ {node}) \cup {UpdatedNode(node, body)}
         IN  /\ req' = [ep |-> "update_node", bearer |-> bearer, body |-> body,
                        failed |-> failed]
             /\ IF who.raised
                THEN resp' = who.exc /\ nodes' = nodes
                ELSE IF rows = {}
                THEN resp' = HTTPException(404, "no such node of yours")
                     /\ nodes' = nodes
                ELSE IF renamed /\ existing # {}
                THEN resp' = HTTPException(409, "name taken") /\ nodes' = nodes
                ELSE IF failed \/ ~NodeConstraints(table)
                THEN resp' = HTTPException(500, "unexpected error") /\ nodes' = nodes
                ELSE /\ resp' = Success("node updated", UpdatedNode(node, body), NoMeta)
                     /\ nodes' = table
    /\ pc' = "done"
    /\ UNCHANGED <<store, now, calls, result, account, notify>>

delete_node ==
    /\ pc = "idle"
    /\ \E bearer \in NodeBearers, node_id \in {"N1", "N2", "N3"}, failed \in BOOLEAN :
         LET who == get_current_user(bearer, users)
             rows == {n \in nodes : /\ n.node_id = node_id
                                    /\ n.user_id = who.node.user_id}
         IN  /\ req' = [ep |-> "delete_node", bearer |-> bearer, node_id |-> node_id,
                        failed |-> failed]
             /\ IF who.raised
                THEN resp' = who.exc /\ nodes' = nodes
                ELSE IF rows = {}
                THEN resp' = HTTPException(404, "no such node of yours")
                     /\ nodes' = nodes
                ELSE IF failed
                THEN resp' = HTTPException(500, "unexpected error") /\ nodes' = nodes
                ELSE /\ resp' = Success("node deleted", [node_id |-> node_id], NoMeta)
                     /\ nodes' = nodes \ rows
    /\ pc' = "done"
    /\ UNCHANGED <<store, now, calls, result, account, notify>>

NextNode == add_node \/ update_node \/ delete_node \/ Respond

SpecNode == InitNode /\ [][NextNode]_vars

(***************************************************************************)
(* The status check of node_routes.py, next to the submits it watches.     *)
(***************************************************************************)
\* Two owners with one node each, the second one marked online.
StatusNodeTables ==
    { {NodesAt("N1", "N1", "T1", 1, L1, STATUS_OFFLINE),
       NodesAt("N2", "N2", "T2", 2, L1, STATUS_ONLINE)} }

StatusStep == 4 * 60

\* What the store client does during a status check: nothing wrong, a query
\* that raises, or a client that cannot be set up.
StatusOutcomes == {"none", "query", "InfluxDBError", "Exception"}

InitStatus ==
    /\ nodes \in StatusNodeTables
    /\ store = {}
    /\ now = StartOfClock
    /\ pc = "idle"
    /\ req = NoReq
    /\ calls = <<>>
    /\ result = <<>>
    /\ resp = NoResp
    /\ users = UsersTable
    /\ credentials = {}
    /\ tokens = {}
    /\ issued = 0
    /\ accepted = <<>>
    /\ subs = {}
    /\ fan = NoRun
    /\ tasks = NoTasks
    /\ inflight = NoRequests

Elapse ==
    /\ pc = "idle"
    /\ now < StartOfClock + MaxTicks * StatusStep
    /\ now' = now + StatusStep
    /\ UNCHANGED <<nodes, store, pc, req, calls, result, resp, account, notify>>

\* The tags of a stored point: submit_air_quality_data gives its point the
\* single tag node_name.  <<>> is a tag the point does not have.
TagOf(r, key) == IF key = "node_name" THEN <<r.node>> ELSE <<>>

\* check_node_status, lines 438-445: range(start: -1h), air_quality, the
\* records whose node_id tag is the node's id, latest first, one per table.
StatusQuery(node_id, t) ==
    [op |-> "query", m |-> "air_quality", tag |-> "node_id", node |-> node_id,
     fields |-> {}, start |-> t - Hour, stop |-> t, agg |-> FALSE, every |-> 0]

\* The instants of the records a tag-filtered pipeline selects.
TaggedTimes(db, q) ==
    {r.t : r \in {x \in db : /\ x.m = q.m
                              /\ TagOf(x, q.tag) = <<q.node>>
                              /\ q.start <= x.t
                              /\ x.t < q.stop}}

\* Lines 449-453: the time of the latest record, <<>> when there is none
\* (the fields of a point share their instant).
LastTime(db, q) ==
    LET times == TaggedTimes(db, q)
    IN  IF times = {} THEN <<>>
        ELSE <<CHOOSE t \in times : \A u \in times : u <= t>>

\* Lines 455-462: online when the latest record is less than 5 minutes old.
NewStatus(last_time, t) ==
    IF last_time # <<>> /\ t - last_time[1] < 5 * 60 THEN 1 ELSE 0

\* Lines 436-488: the entry reported for one node.
StatusEntry(node, db, t, outcome) ==
    IF outcome = "query"
    THEN [node_id |-> node.node_id, node_name |-> node.node_name,
          last_seen |-> <<>>, status |-> node.status, status_text |-> "Unknown"]
    ELSE LET last_time == LastTime(db, StatusQuery(node.node_id, t))
             new_status == NewStatus(last_time, t)
         IN  [node_id |-> node.node_id, node_name |-> node.node_name,
              last_seen |-> last_time, status |-> new_status,
              status_text |-> IF new_status = 1 THEN "Online" ELSE "Offline"]

check_node_status ==
    /\ pc = "idle"
    /\ \E bearer \in NodeBearers, outcome \in StatusOutcomes, failed \in BOOLEAN :
         LET who == get_current_user(bearer, users)
             mine == {n \in nodes : n.user_id = who.node.user_id}
             checked == {[n EXCEPT !.status = StatusEntry(n, store, now, outcome).status]
                           : n \in mine}
         IN  /\ req' = [ep |-> "check_node_status", bearer |-> bearer,
                        outcome |-> outcome, failed |-> failed]
             /\ IF who.raised
                THEN resp' = who.exc /\ nodes' = nodes /\ calls' = <<>>
                ELSE IF mine = {}
                THEN /\ resp' = Success("no node", <<>>, NoMeta)
                     /\ nodes' = nodes /\ calls' = <<>>
                ELSE IF outcome = "InfluxDBError"
                THEN /\ resp' = HTTPException(503, "cannot reach the store")
                     /\ nodes' = nodes /\ calls' = <<>>
                ELSE IF outcome = "Exception"
                THEN /\ resp' = HTTPException(500, "store connection error")
                     /\ nodes' = nodes /\ calls' = <<>>
                ELSE /\ \E order \in ArrivalOrders(mine) :
                          /\ calls' = [i \in DOMAIN order |->
                                          StatusQuery(order[i].node_id, now)]
                          /\ IF failed
                             THEN resp' = HTTPException(500, "unexpected error")
                             ELSE resp' = Success("statuses updated",
                                              [i \in DOMAIN order |->
                                                 StatusEntry(order[i], store, now, outcome)],
                                              NoMeta)
                     /\ nodes' = IF failed THEN nodes
                                 ELSE (nodes \ mine) \cup checked
    /\ pc' = "done"
    /\ UNCHANGED <<store, now, result, account, notify>>

NextStatus == Elapse \/ submit_air_quality_data \/ check_node_status \/ Respond

SpecStatus == InitStatus /\ [][NextStatus]_vars

(***************************************************************************)
(* Registration, login and the verification and reset tokens               *)
(* (user_routes.py).  uuid4 is taken never to return a value twice;        *)
(* issued counts the tokens stored so far.                                 *)
(***************************************************************************)
MaxIssued == 2
VerificationMinutes == 30
ResetMinutes == 15

\* A username may be spelled like somebody else's email address.
Usernames == {"u1", "e2"}
Passwords == {"p1", "p2"}

\* pwd_context.hash and pwd_context.verify.
Hash(password) == <<"bcrypt", password>>
Verify(password, hashed) == hashed = Hash(password)

uuid4(n) == <<"uuid", n>>

\* Token strings a caller may present: every one uuid4 can return here and
\* one it never returns.
TokenTexts == {uuid4(n) : n \in 0..MaxIssued}

\* The sign-in columns of a users row, and a row of the token table.
Credentials(user_id, username, email, password, is_verified) ==
    [user_id |-> user_id, username |-> username, email |-> email,
     password |-> password, is_verified |-> is_verified]
Token(token_id, user_id, verification_token, token_expiry) ==
    [token_id |-> token_id, user_id |-> user_id,
     verification_token |-> verification_token, token_expiry |-> token_expiry]

\* Query.first(): no row, or one of the matching rows (no ORDER BY).
FirstOf(rows) == IF rows = {} THEN {{}} ELSE {{r} : r \in rows}

\* Token.token_expiry > datetime.utcnow()
WithoutExpiryCheck(token, at) == TRUE
TokenLive(token, at) == token.token_expiry > at

\* The filter of reset_password and verify_email.
LiveTokens(table, token, at) ==
    {t \in table : t.verification_token = token /\ TokenLive(t, at)}

\* db.query(Token).filter(Token.user_id == user.user_id).delete(), then the
\* new row.
Reissued(table, user_id, n, at, minutes) ==
    {t \in table : t.user_id # user_id}
        \cup {Token(n, user_id, uuid4(n), at + minutes * 60)}

Accepted(token_data, ep) ==
    [token_id |-> token_data.token_id,
     verification_token |-> token_data.verification_token,
     user_id |-> token_data.user_id, ep |-> ep]

\* register commits the user, then the token: the first commit may fail, or
\* the second, or neither.  A handler that raises before its commit has no
\* commit to fail.
RegisterOutcomes(reached) == IF reached THEN {"ok", "user", "token"} ELSE {"ok"}
CommitFails(reached) == IF reached THEN BOOLEAN ELSE {FALSE}

InitAuth ==
    /\ nodes = {}
    /\ store = {}
    /\ now = StartOfClock
    /\ pc = "idle"
    /\ req = NoReq
    /\ calls = <<>>
    /\ result = <<>>
    /\ resp = NoResp
    /\ users = {}
    /\ credentials = {}
    /\ tokens = {}
    /\ issued = 0
    /\ accepted = <<>>
    /\ subs = {}
    /\ fan = NoRun
    /\ tasks = NoTasks
    /\ inflight = NoRequests

register ==
    /\ pc = "idle"
    /\ \E username \in Usernames, email \in Emails, password \in Passwords :
       \E outcome \in RegisterOutcomes(\A u \in credentials :
                          u.username # username /\ u.email # email) :
         LET existing_user == {u \in credentials :
                                 u.username = username \/ u.email = email}
             user_id == Cardinality(credentials) + 1
             new_user == Credentials(user_id, username, email,
                                     Hash(password), FALSE)
             profile == Users(user_id, <<"a">>, <<"z">>, <<"0", "1">>,
                              ROLE_NODE_OWNER)
             new_token == Token(issued + 1, user_id, uuid4(issued + 1),
                                now + VerificationMinutes * 60)
         IN  /\ existing_user = {} => issued < MaxIssued
             /\ req' = [ep |-> "register", username |-> username,
                        email |-> email, password |-> password,
                        outcome |-> outcome]
             /\ \E found \in FirstOf(existing_user) :
                  IF found # {}
                  THEN /\ resp' = IF \E u \in found : u.username = username
                                  THEN CustomHTTPException(400, "username taken")
                                  ELSE CustomHTTPException(400, "email taken")
                       /\ UNCHANGED <<users, credentials, tokens, issued>>
                  ELSE IF outcome = "user"
                  THEN /\ resp' = CustomHTTPException(500, "error")
                       /\ UNCHANGED <<users, credentials, tokens, issued>>
                  ELSE /\ users' = users \cup {profile}
                       /\ credentials' = credentials \cup {new_user}
                       /\ IF outcome = "token"
                          THEN /\ resp' = CustomHTTPException(500, "error")
                               /\ UNCHANGED <<tokens, issued>>
                          ELSE /\ resp' = ReturnDict(1, "registered",
                                             [user_id |-> user_id])
                               /\ tokens' = tokens \cup {new_token}
                               /\ issued' = issued + 1
    /\ pc' = "done"
    /\ UNCHANGED <<nodes, store, now, calls, result, accepted, notify>>

login ==
    /\ pc = "idle"
    /\ \E username_or_email \in Usernames \cup Emails, password \in Passwords :
         \E user \in FirstOf({u \in credentials :
                                \/ u.username = username_or_email
                                \/ u.email = username_or_email}) :
            /\ req' = [ep |-> "login", username_or_email |-> username_or_email,
                       password |-> password]
            /\ resp' = IF \/ user = {}
                          \/ \E u \in user : ~Verify(password, u.password)
                       THEN CustomHTTPException(401, "wrong name or password")
                       ELSE IF \E u \in user : ~u.is_verified
                       THEN CustomHTTPException(403, "verify the email first")
                       ELSE Success("logged in",
                                [user_id |-> (CHOOSE u \in user : TRUE).user_id],
                                NoMeta)
    /\ pc' = "done"
    /\ UNCHANGED <<nodes, store, now, calls, result, account, notify>>

forgot_password ==
    /\ pc = "idle"
    /\ \E email \in Emails :
         \E user \in FirstOf({u \in credentials : u.email = email}),
            failed \in CommitFails(\E u \in credentials : u.email = email) :
            /\ user # {} => issued < MaxIssued
            /\ req' = [ep |-> "forgot-password", email |-> email,
                       failed |-> failed]
            /\ IF user = {}
               THEN /\ resp' = CustomHTTPException(400, "no such email")
                    /\ UNCHANGED <<tokens, issued>>
               ELSE IF failed
               THEN /\ resp' = CustomHTTPException(500, "error")
                    /\ UNCHANGED <<tokens, issued>>
               ELSE /\ resp' = ReturnDict(1, "reset link sent", NoData)
                    /\ issued' = issued + 1
                    /\ tokens' = Reissued(tokens,
                                    (CHOOSE u \in user : TRUE).user_id,
                                    issued + 1, now, ResetMinutes)
    /\ pc' = "done"
    /\ UNCHANGED <<nodes, store, now, calls, result, users, credentials,
                   accepted, notify>>

reset_password ==
    /\ pc = "idle"
    /\ \E token \in TokenTexts, new_password \in Passwords :
         \E token_data \in FirstOf(LiveTokens(tokens, token, now)),
            failed \in CommitFails(LiveTokens(tokens, token, now) # {}) :
            LET user == {u \in credentials :
                           \E t \in token_data : u.user_id = t.user_id}
            IN  /\ req' = [ep |-> "reset-password", token |-> token,
                           new_password |-> new_password, failed |-> failed]
                /\ IF token_data = {}
                   THEN /\ resp' = CustomHTTPException(400, "link expired or wrong")
                        /\ UNCHANGED <<credentials, tokens, accepted>>
                   ELSE IF user = {}
                   THEN /\ resp' = CustomHTTPException(400, "no such user")
                        /\ UNCHANGED <<credentials, tokens, accepted>>
                   ELSE IF failed
                   THEN /\ resp' = CustomHTTPException(500, "error")
                        /\ UNCHANGED <<credentials, tokens, accepted>>
                   ELSE /\ resp' = ReturnDict(1, "password reset", NoData)
                        /\ credentials' = (credentials \ user) \cup
                              {[u EXCEPT !.password = Hash(new_password)] :
                                 u \in user}
                        /\ tokens' = tokens \ token_data
                        /\ accepted' = Append(accepted,
                              Accepted(CHOOSE t \in token_data : TRUE,
                                       "reset-password"))
    /\ pc' = "done"
    /\ UNCHANGED <<nodes, store, now, calls, result, users, issued, notify>>

verify_email ==
    /\ pc = "idle"
    /\ \E token \in TokenTexts :
         \E token_data \in FirstOf(LiveTokens(tokens, token, now)),
            failed \in CommitFails(LiveTokens(tokens, token, now) # {}) :
            LET user == {u \in credentials :
                           \E t \in token_data : u.user_id = t.user_id}
            IN  /\ req' = [ep |-> "verify-email", token |-> token,
                           failed |-> failed]
                /\ IF token_data = {}
                   THEN /\ resp' = CustomHTTPException(400, "link expired or wrong")
                        /\ UNCHANGED <<credentials, tokens, accepted>>
                   ELSE IF user = {}
                   THEN /\ resp' = CustomHTTPException(400, "no such user")
                        /\ UNCHANGED <<credentials, tokens, accepted>>
                   ELSE IF failed
                   THEN /\ resp' = CustomHTTPException(500, "error")
                        /\ UNCHANGED <<credentials, tokens, accepted>>
                   ELSE /\ resp' = ReturnDict(1, "email verified", NoData)
                        /\ credentials' = (credentials \ user) \cup
                              {[u EXCEPT !.is_verified = TRUE] : u \in user}
                        /\ tokens' = tokens \ token_data
                        /\ accepted' = Append(accepted,
                              Accepted(CHOOSE t \in token_data : TRUE,
                                       "verify-email"))
    /\ pc' = "done"
    /\ UNCHANGED <<nodes, store, now, calls, result, users, issued, notify>>

resend_verification_email ==
    /\ pc = "idle"
    /\ \E email \in Emails :
         \E user \in FirstOf({u \in credentials : u.email = email}),
            failed \in CommitFails(\E u \in credentials :
                                     u.email = email /\ ~u.is_verified) :
            /\ (\E u \in user : ~u.is_verified) => issued < MaxIssued
            /\ req' = [ep |-> "resend-verification", email |-> email,
                       failed |-> failed]
            /\ IF user = {}
               THEN /\ resp' = CustomHTTPException(404, "no such email")
                    /\ UNCHANGED <<tokens, issued>>
               ELSE IF \E u \in user : u.is_verified
               THEN /\ resp' = CustomHTTPException(400, "already verified")
                    /\ UNCHANGED <<tokens, issued>>
               ELSE IF failed
               THEN /\ resp' = CustomHTTPException(500, "error")
                    /\ UNCHANGED <<tokens, issued>>
               ELSE /\ resp' = ReturnDict(1, "verification sent", NoData)
                    /\ issued' = issued + 1
                    /\ tokens' = Reissued(tokens,
                                    (CHOOSE u \in user : TRUE).user_id,
                                    issued + 1, now, VerificationMinutes)
    /\ pc' = "done"
    /\ UNCHANGED <<nodes, store, now, calls, result, users, credentials,
                   accepted, notify>>

NextAuth ==
    \/ register
    \/ login
    \/ forgot_password
    \/ reset_password
    \/ verify_email
    \/ resend_verification_email
    \/ Tick
    \/ Respond

SpecAuth == InitAuth /\ [][NextAuth]_vars

(***************************************************************************)
(* Properties of the guards and of get-window (specification Spec).        *)
(***************************************************************************)
Done(ep) == pc = "done" /\ req.ep = ep

\* C1: verify_node_token answers a missing token with 401, a declared name
\* (or, without a name, a token) that matches no node with 404, a declared
\* name whose stored token differs from the presented one with 403, and
\* never answers any of these cases with 500.
C1_TokenFailureStatuses ==
    Done("verify_node_token") =>
        LET named == {n \in nodes : n.node_name = req.node_name}
            holders == {n \in nodes : n.node_token = req.node_token}
        IN  /\ ~TruthyText(req.node_token) => resp.code = 401
            /\ (TruthyText(req.node_token) /\ TruthyText(req.node_name)
                  /\ named = {}) => resp.code = 404
            /\ (TruthyText(req.node_token) /\ ~TruthyText(req.node_name)
                  /\ holders = {}) => resp.code = 404
            /\ (TruthyText(req.node_token) /\ TruthyText(req.node_name)
                  /\ named # {}
                  /\ \A n \in named : n.node_token # req.node_token)
                  => resp.code = 403
            /\ resp.code # 500

\* A value of a response is a finite number >= 0.
FiniteNonNegative(x) == x.k = "num" /\ x.c >= 0

\* C2: every numeric value in the data of a get-window, daily-summary,
\* hourly-summary or graph success response is finite and non-negative.
C2_EveryPathSanitized ==
    (pc = "done" /\ resp.status = 1) =>
        /\ req.ep = "window" =>
              \A i \in DOMAIN resp.data : FiniteNonNegative(resp.data[i].value)
        /\ req.ep = "graph" =>
              \A i \in DOMAIN resp.data : resp.data[i].value >= 0
        /\ req.ep = "daily" =>
              \A i \in DOMAIN resp.data : \A j \in 2..Len(resp.data[i]) :
                  resp.data[i][j][2] >= 0
        /\ req.ep = "hourly" =>
              \A i \in DOMAIN resp.data : \A j \in 3..Len(resp.data[i]) :
                  resp.data[i][j][2] >= 0

\* C4: get-window never succeeds with an empty data list: when the store
\* delivers zero records the request ends with 404 and status 0, and every
\* success carries count = len(data) >= 1.
C4_EmptyWindowIsNotFound ==
    Done("window") =>
        /\ (calls # <<>> /\ ~req.failed /\ ~FluxFails(store, calls[1])
              /\ result = <<>>) =>
              (resp.code = 404 /\ resp.status = 0)
        /\ resp.status = 1 =>
              (Len(resp.data) >= 1 /\ resp.metadata.count = Len(resp.data))

C4_Witness ==
    /\ Done("window")
    /\ calls # <<>> /\ ~req.failed /\ ~FluxFails(store, calls[1])
    /\ result = <<>>
    /\ resp.code = 404
    /\ store # {}

\* C9: verify_node_access returns a node only when a node of that name is
\* owned by that user, and otherwise answers with one and the same 403
\* response, whether a node of that name exists or not.
C9_OwnerOnlyNoLeak ==
    Done("verify_node_access") =>
        IF \E n \in nodes : n.node_name = req.node_name /\ n.user_id = req.user_id
        THEN /\ resp.status = 1
             /\ resp.data[1] \in nodes
             /\ resp.data[1].node_name = req.node_name
             /\ resp.data[1].user_id = req.user_id
        ELSE resp = HTTPException(403, "Access denied to this node")

C9_Witness ==
    /\ Done("verify_node_access")
    /\ \E n \in nodes : n.node_name = req.node_name /\ n.user_id # req.user_id
    /\ ~\E n \in nodes : n.node_name = req.node_name /\ n.user_id = req.user_id
    /\ resp.code = 403

\* C10: whenever get-window is given a user_id (any integer, 0 included) and
\* no node of that name is owned by that user, the request ends with 403 and
\* no store query is issued.
C10_OwnerCheckWheneverSupplied ==
    (/\ Done("window")
     /\ req.user_id # NoUser
     /\ ~\E n \in nodes : n.node_name = req.node_name /\ n.user_id = req.user_id[1])
        => (resp.code = 403 /\ calls = <<>>)

\* The step in which a handler takes a request to its response.
Handles(ep) == pc = "idle" /\ pc' = "done" /\ req'.ep = ep

\* C11: submit-reading attempts at most one store write per request, and only
\* when the presented token is the stored token of an existing node; the
\* reading is tagged with that node's name.  With a token no node holds,
\* nothing is written, and when the write fails the request ends with an
\* error, the store unchanged, after that single attempt.
C11_SingleVerifiedWrite ==
    [][Handles("submit") =>
        LET holders == {n \in nodes : n.node_token = req'.node_token}
            tags == {n.node_name : n \in holders}
        IN  /\ Len(calls') <= 1
            /\ \A i \in DOMAIN calls' :
                  calls'[i].op = "write" /\ calls'[i].node \in tags
            /\ \A r \in store' \ store :
                  r.m = "air_quality" /\ r.node \in tags /\ r.t = now
            /\ store' # store => (calls' # <<>> /\ resp'.status = 1)
            /\ holders = {} =>
                  (calls' = <<>> /\ store' = store /\ resp'.status = 0)
            /\ (calls' # <<>> /\ req'.failed) =>
                  (store' = store /\ resp'.status = 0 /\ resp'.code >= 400)
    ]_vars

C11_Witness ==
    /\ Done("submit")
    /\ Len(calls) = 1 /\ calls[1].op = "write"
    /\ req.failed
    /\ resp.code = 500
    /\ \E n \in nodes : n.node_token = req.node_token /\ n.node_id # n.node_name

\* The records of the single reading stored under the request's node name,
\* when that reading is the only one, lies in the last hour and holds positive
\* values; no record otherwise.
SingleFreshReading ==
    LET mine == {r \in store : r.m = "air_quality" /\ r.node = req.node_name}
    IN  IF /\ Cardinality(Readings(mine)) = 1
           /\ \A r \in mine : /\ now - Hour <= r.t /\ r.t < now
                               /\ r.v.k = "num" /\ r.v.n > 0
        THEN mine ELSE {}

\* get-window over the last hour answered from the store, a reading present.
RoundTrip ==
    /\ Done("window")
    /\ req.hours = 1 /\ ~req.failed /\ calls # <<>>
    /\ SingleFreshReading # {}

\* The response holds one point per field of the reading.
OnePointPerField ==
    /\ resp.status = 1
    /\ Len(resp.data) = Len(ReadingFields)
    /\ \A r \in SingleFreshReading :
          \E i \in DOMAIN resp.data : resp.data[i].field = r.field

\* C12 as stated: after one reading with small positive values, get-window
\* over the last hour returns exactly one point per field and each point's
\* value equals the submitted value.
C12_RoundTripExact ==
    RoundTrip =>
        /\ OnePointPerField
        /\ \A r \in SingleFreshReading : \A i \in DOMAIN resp.data :
              resp.data[i].field = r.field =>
                  (resp.data[i].value.k = "num"
                   /\ 8 * resp.data[i].value.c = 100 * r.v.n)

\* C12 amended: a successful submit stores each field's submitted value under
\* the node's name, and after one reading with small positive values,
\* get-window over the last hour returns exactly one point per field, each
\* point's value within half a hundredth of the stored one, and equal to it
\* when that is a whole number of hundredths.
C12_RoundTripToHundredths ==
    /\ [][(Handles("submit") /\ resp'.status = 1) =>
            \A i \in DOMAIN ReadingFields :
                Rec("air_quality", resp'.data.node_name, now, ReadingFields[i],
                    req'.data[i]) \in store']_vars
    /\ [](RoundTrip =>
            /\ OnePointPerField
            /\ \A r \in SingleFreshReading : \A i \in DOMAIN resp.data :
                  resp.data[i].field = r.field =>
                      LET c == resp.data[i].value.c
                      IN  /\ resp.data[i].value.k = "num"
                          /\ 8 * c - 100 * r.v.n \in -4..4
                          /\ (100 * r.v.n) % 8 = 0 => 8 * c = 100 * r.v.n)

\* The reading 1.0 .. 7.0 read back at the far end of its hour.
C12_Witness ==
    /\ RoundTrip
    /\ \A r \in SingleFreshReading : r.t = now - Hour
    /\ \E i \in DOMAIN resp.data :
          resp.data[i].field = "humidity" /\ resp.data[i].value.c = 700

\* C13: every range query sent to the store has start < stop and an
\* aggregation bucket that is positive and no wider than stop - start, for
\* every parameter value the endpoint accepts (every integer hours included).
C13_RangeWellFormed ==
    \A i \in DOMAIN calls :
        calls[i].op = "query" =>
            /\ calls[i].start < calls[i].stop
            /\ calls[i].agg =>
                  (/\ 0 < calls[i].every
                   /\ calls[i].every <= calls[i].stop - calls[i].start)

(***************************************************************************)
(* Properties of the summary and graph normalizers (SpecSummary).          *)
(***************************************************************************)
Abs(x) == IF x < 0 THEN -x ELSE x

\* A stored value the sanitizer must turn into 0.0.
Unusable(v) == v.k \in {"none", "str", "nan", "inf", "ninf"} \/ v.n < 0

\* c hundredths is what the sanitizer rule asks for the stored value v:
\* 0 for an unusable v, else a hundredth nearest to v = n/(8d).
Sanitized(c, v) ==
    IF Unusable(v) THEN c = 0
    ELSE c >= 0 /\ Abs(8 * v.d * c - 100 * v.n) <= 4 * v.d

\* The last delivered record of a label and field, if any (0 if none).
LastIndex(records, label, field, Label(_)) ==
    LET hits == {k \in DOMAIN records :
                    Label(records[k].t) = label /\ records[k].field = field}
    IN  IF hits = {} THEN 0 ELSE CHOOSE k \in hits : \A h \in hits : h <= k

\* Every cell of the rows is >= 0 and, when its label and field have records,
\* is the sanitized value of the one consumed last.  skip is the number of
\* leading label entries of a row.
CellsSanitized(rows, records, skip, Label(_)) ==
    \A i \in DOMAIN rows : \A j \in DOMAIN CanonFields :
        LET cell == rows[i][skip + j][2]
            k == LastIndex(records, rows[i][1][2], CanonFields[j], Label)
        IN  /\ cell >= 0
            /\ k # 0 => Sanitized(cell, records[k].v)

\* C3: every value the daily-summary, hourly-summary and graph normalizers
\* emit for a stored value v is 0.0 when v is absent, non-numeric, nan,
\* +inf, -inf or negative, else v rounded to 2 decimals, and is always a
\* finite number >= 0.
C3_NormalizersSanitize ==
    (pc = "done" /\ resp.status = 1) =>
        /\ req.ep = "daily" => CellsSanitized(resp.data, result, 1, StrfDate)
        /\ req.ep = "hourly" => CellsSanitized(resp.data, result, 2, StrfHourMinute)
        /\ req.ep = "graph" =>
              /\ Len(resp.data) = Len(result)
              /\ \A i \in DOMAIN result : Sanitized(resp.data[i].value, result[i].v)

C3_Witness ==
    /\ Done("daily")
    /\ resp.status = 1
    /\ Len(result) = 3
    /\ result[1].v = Str
    /\ result[2].v = Num(-12)
    /\ result[3].v = Num(3)
    /\ resp.data[1][2] = <<"AQI", 38>>

\* The rows a summary handler builds from records delivered in this order.
RowsOf(ep, records) ==
    IF ep = "daily" THEN DailyRows(records) ELSE HourlyRows(records)

\* C5: the daily-summary and hourly-summary outputs are the same for every
\* order in which the store may deliver the same set of records.
C5_SummaryOrderIndependent ==
    (pc = "done" /\ req.ep \in {"daily", "hourly"} /\ resp.status = 1) =>
        \A other \in ArrivalOrders(Range(result)) :
            RowsOf(req.ep, other) = resp.data

\* The labels occurring among the delivered records.
LabelsOf(ep, records) ==
    IF ep = "daily" THEN {StrfDate(records[i].t) : i \in DOMAIN records}
    ELSE {StrfHourMinute(records[i].t) : i \in DOMAIN records}

\* C6: a summary response has exactly one row per distinct label among the
\* delivered records, in strictly ascending label order, and total_days /
\* total_hours is the number of distinct labels.
C6_OneRowPerLabelAscending ==
    (pc = "done" /\ req.ep \in {"daily", "hourly"} /\ resp.status = 1) =>
        LET rows == resp.data
            labels == LabelsOf(req.ep, result)
            total == IF req.ep = "daily" THEN resp.metadata.total_days
                     ELSE resp.metadata.total_hours
        IN  /\ {rows[i][1][2] : i \in DOMAIN rows} = labels
            /\ Len(rows) = Cardinality(labels)
            /\ \A i, j \in DOMAIN rows : i < j => TextLess(rows[i][1][2], rows[j][1][2])
            /\ total = Cardinality(labels)

C6_Witness ==
    /\ Done("hourly")
    /\ resp.status = 1
    /\ Len(result) = 3
    /\ Len(resp.data) = 2
    /\ StrfHourMinute(result[1].t) = <<10, 0>>
    /\ resp.data[1][1][2] = <<9, 0>>

\* The keys of a row, in order.
KeysOf(row) == [j \in DOMAIN row |-> row[j][1]]

\* C7: every summary row carries the eight fields AQI, PM1, PM2_5, PM4, PM10,
\* CO2, temperature, humidity in that order, and a field with no record for
\* the row's label is 0.0.
C7_CanonicalFieldsWithDefault ==
    (pc = "done" /\ req.ep \in {"daily", "hourly"} /\ resp.status = 1) =>
        LET skip == IF req.ep = "daily" THEN 1 ELSE 2
            head == IF req.ep = "daily" THEN <<"date">> ELSE <<"time", "datetime">>
        IN  \A i \in DOMAIN resp.data :
               /\ KeysOf(resp.data[i]) = head \o CanonFields
               /\ \A j \in DOMAIN CanonFields :
                     (~\E k \in DOMAIN result :
                         /\ LabelsOf(req.ep, <<result[k]>>) = {resp.data[i][1][2]}
                         /\ result[k].field = CanonFields[j])
                     => resp.data[i][skip + j] = <<CanonFields[j], 0>>

C7_Witness ==
    /\ Done("daily")
    /\ resp.status = 1
    /\ Len(resp.data) = 1
    /\ \E k \in DOMAIN result : result[k].field = "AQI" /\ result[k].v = Num(3)
    /\ ~\E k \in DOMAIN result : result[k].field = "CO2"
    /\ resp.data[1][2] = <<"AQI", 38>>
    /\ resp.data[1][7] = <<"CO2", 0>>

\* C8: the graph statistics are taken over exactly the points whose value is
\* > 0: count is their number, min and max their least and greatest value,
\* avg their mean rounded to 2 decimals; total_points counts every point;
\* with no point > 0 the statistics are min = max = avg = count = 0.
C8_StatisticsOverPositivePoints ==
    (Done("graph") /\ resp.status = 1) =>
        LET points == resp.data
            stats == resp.metadata.statistics
            pos == {i \in DOMAIN points : points[i].value > 0}
            total == SumSeq([i \in DOMAIN points |->
                               IF points[i].value > 0 THEN points[i].value ELSE 0])
        IN  /\ resp.metadata.total_points = Len(points)
            /\ stats.count = Cardinality(pos)
            /\ pos = {} => stats = [min |-> 0, max |-> 0, avg |-> 0, count |-> 0]
            /\ pos # {} =>
                  /\ \E i \in pos : points[i].value = stats.min
                  /\ \A i \in pos : stats.min <= points[i].value
                  /\ \E i \in pos : points[i].value = stats.max
                  /\ \A i \in pos : points[i].value <= stats.max
                  /\ 2 * Abs(Cardinality(pos) * stats.avg - total) <= Cardinality(pos)

\* The points [0.0, 5.0, 10.0] give min 5.0, max 10.0, avg 7.5, count 2.
C8_Witness ==
    /\ Done("graph")
    /\ resp.status = 1
    /\ [i \in DOMAIN resp.data |-> resp.data[i].value] = <<0, 500, 1000>>
    /\ resp.metadata.statistics = [min |-> 500, max |-> 1000, avg |-> 750, count |-> 2]
    /\ resp.metadata.total_points = 3

(***************************************************************************)
(* Properties of the requests' ranges and validation (SpecSummary).        *)
(***************************************************************************)
\* The last second of a month.
FinalSecond(year, mon) == At(year, mon, 1, 0, 0, 0) + DaysInMonth(year, mon) * Day - 1

\* C14: the daily-summary window of a month runs from the month's first
\* instant to its last second, and a record stamped exactly at that last
\* second is inside the queried range, the store's stop bound being exclusive.
C14_MonthWindowInclusive ==
    (Done("daily") /\ calls # <<>>) =>
        LET q == calls[1]
            last == FinalSecond(req.month[1], req.month[2])
        IN  /\ q.start = At(req.month[1], req.month[2], 1, 0, 0, 0)
            /\ q.stop = last
            /\ \A r \in store :
                  (r.m = q.m /\ r.node = q.node /\ r.t = last) =>
                      r \in Selected(store, q)

\* C15: a graph request whose time_range is not 24h, 7d or 30d, or whose
\* data_type is not one of the eight fields, ends with a 400 whose message
\* names the allowed values, and no store query is issued for it.
C15_GraphValidation ==
    Done("graph") =>
        LET ranges == {"24h", "7d", "30d"}
            types == {"AQI", "PM1", "PM2_5", "PM4", "PM10", "CO2", "temperature",
                      "humidity"}
        IN  /\ req.time_range \notin ranges =>
                  /\ resp.code = 400 /\ resp.status = 0
                  /\ resp.message.allowed = ranges
                  /\ calls = <<>>
            /\ (req.time_range \in ranges /\ req.data_type \notin types) =>
                  /\ resp.code = 400 /\ resp.status = 0
                  /\ resp.message.allowed = types
                  /\ calls = <<>>
            /\ (req.time_range \in ranges /\ req.data_type \in types) =>
                  (resp.code # 400 /\ Len(calls) = 1)

C15_Witness ==
    /\ Done("graph")
    /\ req.time_range = "12h" /\ req.data_type = "AQI"
    /\ resp.code = 400
    /\ store # {}

\* C16: an hourly-summary request whose date is not a calendar date in the
\* form YYYY-MM-DD ends with a 400 whose message names that form, without any
\* store query, and never with a 500.
C16_MalformedDateIs400 ==
    Done("hourly") =>
        IF /\ req.date[2] \in 1..12
           /\ req.date[3] \in 1..DaysInMonth(req.date[1], req.date[2])
        THEN Len(calls) = 1
        ELSE /\ resp = HTTPException(400, "invalid date format, use YYYY-MM-DD")
             /\ calls = <<>>

C16_Witness ==
    /\ Done("hourly")
    /\ req.date = <<2024, 13, 40>>
    /\ resp.code = 400 /\ resp.status = 0
    /\ calls = <<>>
    /\ store # {}

\* C17: a 24h graph reads the hourly summary measurement in 1h buckets and
\* labels its points HH:MM with a full date-and-time stamp; a 7d or 30d graph
\* reads the daily summary measurement in 1d buckets and labels its points
\* MM-DD with a date-only stamp; the metadata reports the window and the
\* measurement of the query that was sent.
C17_GraphRangeSelectsSource ==
    (Done("graph") /\ calls # <<>>) =>
        LET q == calls[1]
            hourly == req.time_range = "24h"
            days == IF req.time_range = "24h" THEN 1
                    ELSE IF req.time_range = "7d" THEN 7 ELSE 30
        IN  /\ q.m = (IF hourly THEN "AirQualitySummary" ELSE "AirQualitySummary24h")
            /\ q.agg /\ q.every = (IF hourly THEN 60 * 60 ELSE 24 * 60 * 60)
            /\ q.stop = now /\ q.stop - q.start = days * 24 * 60 * 60
            /\ q.fields = {req.data_type}
            /\ resp.status = 1 =>
                  /\ resp.metadata.window = (IF hourly THEN "1h" ELSE "1d")
                  /\ resp.metadata.measurement = q.m
                  /\ Len(resp.data) = Len(result)
                  /\ \A i \in DOMAIN resp.data :
                        LET p == resp.data[i]
                            dt == p.datetime
                        IN  IF hourly
                            THEN /\ Len(dt) = 6
                                 /\ At(dt[1], dt[2], dt[3], dt[4], dt[5], dt[6])
                                      = result[i].t
                                 /\ p.time = <<dt[4], dt[5]>>
                            ELSE /\ Len(dt) = 3
                                 /\ At(dt[1], dt[2], dt[3], 0, 0, 0) <= result[i].t
                                 /\ result[i].t < At(dt[1], dt[2], dt[3], 0, 0, 0) + Day
                                 /\ dt[2] \in 1..12
                                 /\ dt[3] \in 1..DaysInMonth(dt[1], dt[2])
                                 /\ p.time = <<dt[2], dt[3]>>

C17_Witness ==
    /\ Done("graph")
    /\ req.time_range = "7d"
    /\ resp.status = 1
    /\ Len(resp.data) >= 1
    /\ resp.data[1].time = <<1, 1>>
    /\ resp.data[1].value > 0
    /\ resp.metadata.measurement = "AirQualitySummary24h"

\* C18: on every read endpoint (get-window, months-with-data, daily-summary,
\* hourly-summary, graph), when the store query or the processing of its
\* result raises, whatever the exception, the request ends with 500 or 503
\* and a status 0 envelope: never a success and never a 4xx.
C18_StoreFailureIsServerError ==
    (/\ pc = "done"
     /\ req.ep \in {"window", "months", "daily", "hourly", "graph"}
     /\ calls # <<>>
     /\ req.failed \/ FluxFails(store, calls[1]))
        => (resp.code \in {500, 503} /\ resp.status = 0)

(***************************************************************************)
(* Properties of the response envelope.                                    *)
(***************************************************************************)
\* C19: in every response, status 0 comes only with an HTTP error code
\* (>= 400) and status 1 only with a success code; no handler returns a
\* status 0 body as a normal HTTP 200 result.
C19_StatusMatchesHttpCode ==
    pc = "done" =>
        /\ resp.status = 0 => resp.code >= 400
        /\ resp.status = 1 => resp.code \in 200..299

(***************************************************************************)
(* Properties of the daily notification run (SpecNotify).                  *)
(***************************************************************************)
\* A location has data for the run of instant t: a summary record of one of
\* its nodes stamped 07:00 of that day holds a usable AQI.
HasData(location, t) ==
    \E r \in store, n \in nodes :
        /\ n.location = location /\ r.node = n.node_name
        /\ r.m = "AirQualitySummary" /\ r.field = "AQI"
        /\ (r.t + BangkokOffset) % Day = 7 * Hour
        /\ (r.t + BangkokOffset) \div Day = (t + BangkokOffset) \div Day
        /\ r.v.k = "num" /\ r.v.n >= 0

\* C20: after a run of the daily notification job, a send has been attempted
\* for every active subscriber of every location that has data, whatever
\* happened to the sends before it.
C20_EverySubscriberAttempted ==
    fan.state # "never" =>
        \A n \in fan.table :
            (n.is_active /\ HasData(n.location, fan.at)) =>
                \E i \in DOMAIN fan.sends : fan.sends[i].email = n.email

\* The reading stored for a node at an instant carries all seven fields.
SevenFields(db, node, t) ==
    \A i \in DOMAIN ReadingFields :
        \E r \in db : /\ r.m = "air_quality" /\ r.node = node /\ r.t = t
                      /\ r.field = ReadingFields[i]

\* C21: every reading that submit writes carries all seven fields PM1, PM2_5,
\* PM4, PM10, CO2, temperature and humidity; a submit whose payload misses one
\* of them is answered with a validation error (a 4xx that is not an access
\* error), issues no store call and leaves the store as it was.
C21_SevenFieldsOrNothing ==
    /\ [][(pc = "idle" /\ pc' = "done" /\ req'.ep = "submit"
            /\ DOMAIN req'.data # DOMAIN ReadingFields)
           => (resp'.code \in {400, 422} /\ calls' = <<>> /\ store' = store)]_vars
    /\ [](\A rd \in Readings(store) : SevenFields(store, rd[1], rd[2]))

\* A partial payload has been refused while the store holds a reading written
\* by an earlier submit.
C21_Witness ==
    /\ Done("submit")
    /\ DOMAIN req.data # DOMAIN ReadingFields
    /\ resp.code = 422
    /\ Readings(store) # {}

\* C22: whatever adds, updates and deletes took place, no two stored nodes
\* hold the same secret token, and an add whose generated token is already
\* held by a node creates no node.
C22_TokenUnique ==
    /\ [][(pc = "idle" /\ pc' = "done" /\ req'.ep = "add_node"
            /\ \E n \in nodes : n.node_token = req'.node_token)
           => (nodes' = nodes /\ resp'.status = 0)]_vars
    /\ [](\A a, b \in nodes : a.node_token = b.node_token => a = b)

\* A logged-in user's add drew the token of the one stored node and was
\* refused, although its name was free.
C22_Witness ==
    /\ Done("add_node")
    /\ resp.code = 500
    /\ ~req.failed
    /\ \E n \in nodes : /\ n.node_token = req.node_token
                         /\ n.node_id # req.body.node_name.core

\* C26: whatever adds, updates and deletes took place, no two stored nodes
\* share a node_name.
C26_NodeNameUnique ==
    \A a, b \in nodes : a.node_name = b.node_name => a = b

\* The read endpoints, each of which embeds its node_name in a pipeline.
ReadEndpoints == {"window", "months", "daily", "hourly", "graph"}

\* C23: on every read endpoint, a node_name holding a double quote is either
\* refused (no query reaches the store) or escaped before it is embedded in
\* the query: no query carries it as it was received.
C23_NodeNameValidated ==
    (pc = "done" /\ req.ep \in ReadEndpoints /\ HasDoubleQuote(req.node_name)) =>
        \A i \in DOMAIN calls : calls[i].node # req.node_name

\* A YYYY-MM token: two runs of digits, the second one of 1..12.
ValidMonthToken(text) ==
    /\ Len(text) = 2
    /\ \A i \in DOMAIN text : text[i].digits
    /\ text[2].n \in 1..12

\* C24: a daily-summary request whose month is not a valid YYYY-MM token ends
\* with a 400 and issues no store query.
C24_MalformedMonthIs400 ==
    (Done("daily") /\ ~ValidMonthToken(req.text)) =>
        (resp.code = 400 /\ calls = <<>>)

\* C25: every query the daily 7am job sends to the store has its start
\* strictly before its stop, and a summary record stamped 07:00 local time of
\* the day for one of the queried nodes lies inside its window.
C25_SevenAmWindowHolds7am ==
    \A i \in DOMAIN fan.queries :
        LET q == fan.queries[i]
        IN  /\ q.start < q.stop
            /\ q.start <= SevenAm(fan.at) /\ SevenAm(fan.at) < q.stop

\* The nodes of the caller that submitted a reading less than 5 minutes ago.
RecentlySeen(node) ==
    \E rd \in Readings(store) :
        rd[1] = node.node_name /\ rd[2] < now /\ now - rd[2] < 5 * 60

\* C27: a status check by an owner, the store answering, reports each of the
\* owner's nodes online with status 1 stored when the node submitted a reading
\* less than 5 minutes ago, and offline with status 0 stored otherwise.
C27_StatusFollowsReadings ==
    (Done("check_node_status") /\ resp.status = 1 /\ req.outcome = "none") =>
        \A n \in nodes :
            n.user_id = req.bearer.sub =>
                LET expected == IF RecentlySeen(n) THEN 1 ELSE 0
                IN  /\ n.status = expected
                    /\ \E i \in DOMAIN resp.data :
                          /\ resp.data[i].node_id = n.node_id
                          /\ resp.data[i].status = expected

\* The rows a step creates, and the rows it turns from inactive to active.
Created == {n \in subs' : \A m \in subs : m.email_id # n.email_id}
Reactivated ==
    {n \in subs' : \E m \in subs :
        m.email_id = n.email_id /\ ~m.is_active /\ n.is_active}

\* C28: a subscribe request queues the welcome email exactly when it creates
\* a subscription or reactivates an inactive one, and its response is ready
\* with the task still queued; a request for an active email, for the same or
\* for another location, queues nothing.  A delivery runs when no response is
\* pending and leaves the stored subscriptions as they were, whether it
\* succeeds or fails.
C28_WelcomeScheduledOnce ==
    /\ [][Handles("subscribe") =>
            IF Created \cup Reactivated # {}
            THEN /\ tasks'.queue = Append(tasks.queue,
                                          BackgroundTask(req'.email, req'.location))
                 /\ tasks'.last = tasks.last
            ELSE tasks' = tasks]_vars
    /\ [][Len(tasks'.queue) < Len(tasks.queue) => (pc = "idle" /\ subs' = subs)]_vars

\* The welcome email of e2 could not be delivered; the subscription of e2 is
\* stored and active.
C28_Witness ==
    /\ tasks.last = <<[email |-> "e2", ok |-> FALSE]>>
    /\ \E n \in subs : n.email = "e2" /\ n.is_active
    /\ tasks.queue = <<>>

VerifiedBy(user_id, log) ==
    \E i \in DOMAIN log : log[i].ep = "verify-email" /\ log[i].user_id = user_id

\* user_id's row is verified after the step and was not before it.
BecomesVerified(user_id) ==
    /\ \E u \in credentials' : u.user_id = user_id /\ u.is_verified
    /\ ~ \E u \in credentials : u.user_id = user_id /\ u.is_verified

\* C30: over register, login, verify-email, resend-verification,
\* forgot-password and reset-password calls, a login answers with success
\* only for a stored user whose email a verify-email call has verified; a
\* user becomes verified only in a verify-email call that presents the
\* string of a stored token of that user whose expiry lies after the clock;
\* and no stored token is accepted twice by verify-email or reset-password.
C30_VerifiedLoginAndSingleUse ==
    /\ [][/\ (Handles("login") /\ resp'.status = 1) =>
               \E u \in credentials :
                  /\ u.user_id = resp'.data.user_id
                  /\ u.is_verified
                  /\ u.username = req'.username_or_email
                        \/ u.email = req'.username_or_email
                  /\ VerifiedBy(u.user_id, accepted)
          /\ \A id \in 1..Cardinality(Usernames \X Emails) :
               BecomesVerified(id) =>
                  /\ Handles("verify-email")
                  /\ \E t \in tokens :
                        /\ t.verification_token = req'.token
                        /\ t.user_id = id
                        /\ t.token_expiry > now
                        /\ t \notin tokens'
          /\ accepted' # accepted =>
               /\ Handles("verify-email") \/ Handles("reset-password")
               /\ resp'.status = 1
               /\ \E t \in tokens \ tokens' :
                     /\ t.verification_token = req'.token
                     /\ t.token_expiry > now
                     /\ accepted' = Append(accepted, Accepted(t, req'.ep))
         ]_vars
    /\ [](\A i, j \in DOMAIN accepted :
             (\/ accepted[i].token_id = accepted[j].token_id
              \/ accepted[i].verification_token = accepted[j].verification_token)
                => i = j)

\* A login has just succeeded, after the clock moved, for a user whose email
\* one token verified and whose password a later token reset.
C30_Witness ==
    /\ pc = "done"
    /\ req.ep = "login"
    /\ resp.status = 1
    /\ VerifiedBy(resp.data.user_id, accepted)
    /\ \E i \in DOMAIN accepted :
          /\ accepted[i].ep = "reset-password"
          /\ accepted[i].user_id = resp.data.user_id
    /\ now > StartOfClock

====
